---- MODULE Spec2Model ----
(***************************************************************************)
(* Model of the geometric region resolution in src/src/page/               *)
(* layout_analyzer.py (class LayoutAnalyzer): the hierarchical filter      *)
(* (_hierarchical_filter and its helpers) and the overlap resolver         *)
(* (_resolve_overlaps, _subtract_overlap).                                 *)
(*                                                                         *)
(* Coordinates are integers on a small grid.  Scores and thresholds are    *)
(* integers in hundredths (score 90 is 0.90, threshold 40 is 0.40); ratios *)
(* are kept as exact fractions <<numerator, denominator>> and compared by  *)
(* cross-multiplication, so a comparison ratio >= threshold is decided as  *)
(* in exact arithmetic.                                                    *)
(*                                                                         *)
(* Further parts, each with a specification of its own: the coordinate     *)
(* mapping (_rect_to_image_xy, utils.rect_to_image_xy), the text           *)
(* attachment (_attach_text), TextExtractor.need_space_between of          *)
(* src/src/page/extractors.py, and Document.analyze_document of            *)
(* src/src/document/document.py with the lazy model of _get_model,         *)
(* TextExtractor._build_block_struct and LinkExtractor._iter_inline_urls   *)
(* of extractors.py, ParallelProcessor.analyze_document_parallel_pages of  *)
(* src/src/document/parallel_processor.py, and Checker.check_document_     *)
(* pages with Reporter.get_report of src/src/report.  A behaviour runs one *)
(* of these functions (variable op); the variables of the others keep      *)
(* their idle values.                                                      *)
(***************************************************************************)
EXTENDS Integers, Sequences, FiniteSets, TLC

VARIABLES
    op,          \* which function this behaviour runs: "filter", "resolve", ...
    layout,      \* the input Layout (sequence of boxes), never written
    cfg,         \* keyword arguments of _hierarchical_filter
    pc,          \* position in the running function
    candidates,  \* _hierarchical_filter: local `candidates` (after sorting)
    idx,         \* index (1-based) of the loop's current element
    selected,    \* _hierarchical_filter: local `selected`
    flog,        \* history: one record per candidate the filter loop processed
    again,       \* result of a second call made after the first returned
    ordered,     \* _resolve_overlaps: local `ordered`
    rect,        \* _resolve_overlaps: local `rect` of the current block
    acc,         \* _resolve_overlaps: index into `resolved` of the inner loop
    resolved,    \* _resolve_overlaps: local `resolved`
    rlog,        \* history: one record per _subtract_overlap call
    page_h_pt,   \* _attach_text, _rect_to_image_xy: the page height in points
    scale,       \* pixels per point, the fraction <<n, d>>
    blocks,      \* _attach_text: parameter `blocks` (bbox_px, text, type)
    spans,       \* _attach_text: the spans of page.get_text("dict"), in order
    alog,        \* history: one record per non-blank span processed
    rect_pt,     \* _rect_to_image_xy: parameter `rect`
    image_xy,    \* what LayoutAnalyzer._rect_to_image_xy returned (<<>>: not called)
    utils_xy,    \* what utils.rect_to_image_xy returned (<<>>: not called)
    n_pages,     \* analyze_document: number of pages of self._doc
    resolved_mode, \* analyze_document: keyword argument `resolved`
    results,     \* analyze_document: local `results` (page numbers of the results)
    layout_analyzer, \* the current Page's _layout_analyzer: <<>> is None
    builds,      \* history: number of Detectron2LayoutModel objects constructed
    plog,        \* history: per page visited, how its analysis ended
    prev_text,   \* need_space_between: parameter prev_text
    next_text,   \* need_space_between: parameter next_text
    need_space,  \* what need_space_between returned (<<>>: not called)
    b_spans,     \* _build_block_struct: the spans of block `b`, lines flattened
    build,       \* _build_block_struct: its locals and what it returned
    text_dict,   \* _iter_inline_urls: text_dict["blocks"]
    inline,      \* _iter_inline_urls: loop positions, full_line_text, yielded links
    futures,     \* analyze_document_parallel_pages: arguments and what each worker does
    par,         \* analyze_document_parallel_pages: its locals and what it returned
    doc,         \* check_document_pages: the pages of fitz.open(pdf_path)
    doc_json,    \* get_report: argument doc_json, the analysed pages
    check        \* check_document_pages / get_report: locals and what was returned

filterVars == <<candidates, selected, flog, again>>
resolveVars == <<ordered, rect, acc, resolved, rlog>>
layoutVars == <<layout, cfg, filterVars, resolveVars>>
attachVars == <<blocks, spans, alog>>
mapVars == <<page_h_pt, scale, rect_pt, image_xy, utils_xy>>
docVars == <<n_pages, resolved_mode, results, layout_analyzer, builds, plog>>
textVars == <<prev_text, next_text, need_space>>
structVars == <<b_spans, build>>
linkVars == <<text_dict, inline>>
parVars == <<futures, par>>
checkVars == <<doc, doc_json, check>>
laterVars == <<structVars, linkVars, parVars, checkVars>>
otherVars == <<attachVars, mapVars, docVars, textVars, laterVars>>

vars == <<op, pc, idx, layoutVars, otherVars>>

---------------------------------------------------------------------------
(* Bounds and input domains *)

\* longest input layout
MaxBoxes == 3

\* grid coordinates of the input rectangles
Coords == {0, 1, 2}

\* a box's score attribute: <<>> when the attribute is absent, <<s>> otherwise
FilterScores == {<<>>, <<30>>, <<90>>}
ResolveScores == {<<>>, <<90>>}

\* label_map of the default model "prima"
Labels == <<"TextRegion", "ImageRegion", "TableRegion",
            "MathsRegion", "SeparatorRegion", "OtherRegion">>

\* the i-th detected box carries the i-th label (cyclically): labels are only
\* ever copied by the code, and distinct labels make each input box traceable
LabelOf(i) == Labels[((i - 1) % Len(Labels)) + 1]

\* well-formed input rectangles of positive width and height
Rects ==
    {r \in [x1 : Coords, y1 : Coords, x2 : Coords, y2 : Coords] :
        r.x1 < r.x2 /\ r.y1 < r.y2}

\* inputs of the filter: the rectangles that touch the top edge (the filter's
\* predicates are symmetric in the two axes and under reflection)
FilterRects == {r \in Rects : r.y1 = 0}

\* inputs of the resolver, whose clipping is along the vertical axis
ResolveRects == Rects

Rectangle(a, b, c, d) == [x1 |-> a, y1 |-> b, x2 |-> c, y2 |-> d]

TextBlock(r, s, l) ==
    [x1 |-> r.x1, y1 |-> r.y1, x2 |-> r.x2, y2 |-> r.y2, score |-> s, label |-> l]

\* keyword arguments the filter is run with
\*   the defaults of _hierarchical_filter; a permissive call with a tolerance
\*   of one grid unit; a strict score cut with a low containment threshold
Configs ==
    { [min_score |-> 20, const_tresh |-> 90, iou_thresh |-> 40, tol |-> 0],
      [min_score |-> 0,  const_tresh |-> 80, iou_thresh |-> 90, tol |-> 1],
      [min_score |-> 90, const_tresh |-> 50, iou_thresh |-> 40, tol |-> 0] }

MinScores == {c.min_score : c \in Configs}

Max(a, b) == IF a >= b THEN a ELSE b
Min(a, b) == IF a <= b THEN a ELSE b

---------------------------------------------------------------------------
(* Geometry helpers of LayoutAnalyzer *)

\* getattr(b, "score", 0.0)
ScoreOf(b) == IF b.score = <<>> THEN 0 ELSE b.score[1]

BoxArea(b) == Max(0, b.x2 - b.x1) * Max(0, b.y2 - b.y1)

Contains(outer, inner, tol) ==
    /\ inner.x1 >= outer.x1 - tol
    /\ inner.y1 >= outer.y1 - tol
    /\ inner.x2 <= outer.x2 + tol
    /\ inner.y2 <= outer.y2 + tol

\* inter_area of _iou and _containment_ratio
InterArea(a, b) ==
    Max(0, Min(a.x2, b.x2) - Max(a.x1, b.x1))
      * Max(0, Min(a.y2, b.y2) - Max(a.y1, b.y1))

\* a fraction <<n, d>>, d > 0
Iou(el1, el2) ==
    LET inter == InterArea(el1, el2)
        union == BoxArea(el1) + BoxArea(el2) - inter
    IN  IF union > 0 THEN <<inter, union>> ELSE <<0, 1>>

\* variant: the intersection over the area of the smaller rectangle
ContainmentRatioOfSmaller(inner, outer) ==
    LET inter == InterArea(inner, outer)
        smaller_area == Min(BoxArea(inner), BoxArea(outer))
    IN  IF smaller_area > 0 THEN <<inter, smaller_area>> ELSE <<0, 1>>

\* _containment_ratio (lines 68-78)
ContainmentRatio(inner, outer) ==
    LET inter == InterArea(inner, outer)
        inner_area == BoxArea(inner)
    IN  IF inner_area > 0 THEN <<inter, inner_area>> ELSE <<0, 1>>

\* fraction >= threshold, the threshold in hundredths
AtLeast(frac, thresh) == frac[1] * 100 >= thresh * frac[2]

---------------------------------------------------------------------------
(* _sorted_by_score_then_area: sorted() is stable, key (-score, -area) *)

KeyLE(a, b) ==
    \/ ScoreOf(a) > ScoreOf(b)
    \/ ScoreOf(a) = ScoreOf(b) /\ BoxArea(a) >= BoxArea(b)

\* insert b behind every element whose key is <= b's key
InsertByKey(s, b) ==
    LET k == Cardinality({i \in 1..Len(s) : KeyLE(s[i], b)})
    IN  SubSeq(s, 1, k) \o <<b>> \o SubSeq(s, k + 1, Len(s))

RECURSIVE SortPrefix(_, _)
SortPrefix(boxes, n) ==
    IF n = 0 THEN <<>> ELSE InsertByKey(SortPrefix(boxes, n - 1), boxes[n])

\* variant: the processing order reversed (lowest score first)
SortedByScoreThenAreaAscending(boxes) ==
    LET s == SortPrefix(boxes, Len(boxes))
    IN  [i \in 1..Len(s) |-> s[Len(s) + 1 - i]]

\* variant: sorted by score alone, boxes of equal score in input order
RECURSIVE SortedByScoreOnly(_)
SortedByScoreOnly(boxes) ==
    IF boxes = <<>> THEN <<>>
    ELSE LET n == Len(boxes)
             s == SortedByScoreOnly(SubSeq(boxes, 1, n - 1))
             k == Cardinality({i \in 1..Len(s) : ScoreOf(s[i]) >= ScoreOf(boxes[n])})
         IN  SubSeq(s, 1, k) \o <<boxes[n]>> \o SubSeq(s, k + 1, Len(s))

SortedByScoreThenArea(boxes) == SortPrefix(boxes, Len(boxes))

---------------------------------------------------------------------------
(* _suppress_with_rules: loop over selected with an early return *)

RuleHits(sel, candidate, c) ==
    \/ Contains(sel, candidate, c.tol)
    \/ AtLeast(ContainmentRatio(candidate, sel), c.const_tresh)
    \/ AtLeast(Iou(candidate, sel), c.iou_thresh)

RECURSIVE SuppressFrom(_, _, _, _)
SuppressFrom(sel, k, candidate, c) ==
    IF k > Len(sel) THEN FALSE
    ELSE IF RuleHits(sel[k], candidate, c) THEN TRUE
    ELSE SuppressFrom(sel, k + 1, candidate, c)

\* variant: the containment-ratio rule left out
SuppressWithoutRatioRule(sel, candidate, c) ==
    \E k \in 1..Len(sel) :
        \/ Contains(sel[k], candidate, c.tol)
        \/ AtLeast(Iou(candidate, sel[k]), c.iou_thresh)

SuppressWithRules(sel, candidate, c) == SuppressFrom(sel, 1, candidate, c)

(* _remove_superseded: the comprehension calls self._conflict for every     *)
(* element of selected.  LayoutAnalyzer defines no attribute _conflict, so  *)
(* the first evaluation raises AttributeError; with selected empty the      *)
(* comprehension evaluates nothing and Layout([]) is returned.              *)
\* variant: _conflict always false, nothing is ever evicted
RemoveSupersededKeepingAll(sel, keeper, c) ==
    [raised |-> FALSE, remain |-> sel]

RemoveSuperseded(sel, keeper, c) ==
    [raised |-> Len(sel) > 0, remain |-> <<>>]

\* variant: no score cut
ScoreCutIgnored(boxes, min_score) == boxes

\* the comprehension of line 122
ScoreCut(boxes, min_score) ==
    SelectSeq(boxes, LAMBDA b : ScoreOf(b) >= min_score)

\* variant: a suppressed candidate is appended all the same
LoopBodyKeepingDiscarded(sel, box, c) ==
    IF SuppressWithRules(sel, box, c)
    THEN [verdict |-> "discarded", selected |-> Append(sel, box)]
    ELSE LET r == RemoveSuperseded(sel, box, c)
         IN  IF r.raised
             THEN [verdict |-> "raised", selected |-> sel]
             ELSE [verdict |-> "accepted", selected |-> Append(r.remain, box)]

\* one iteration of the loop of _hierarchical_filter on `box`
\*   verdict "discarded": continue;  "raised": the exception leaves the
\*   function;  "accepted": selected is replaced and box appended
LoopBody(sel, box, c) ==
    IF SuppressWithRules(sel, box, c)
    THEN [verdict |-> "discarded", selected |-> sel]
    ELSE LET r == RemoveSuperseded(sel, box, c)
         IN  IF r.raised
             THEN [verdict |-> "raised", selected |-> sel]
             ELSE [verdict |-> "accepted", selected |-> Append(r.remain, box)]

\* the whole call, as a function of its arguments
RECURSIVE FilterLoop(_, _, _, _)
FilterLoop(cands, k, sel, c) ==
    IF k > Len(cands) THEN [raised |-> FALSE, selected |-> sel]
    ELSE LET b == LoopBody(sel, cands[k], c)
         IN  IF b.verdict = "raised"
             THEN [raised |-> TRUE, selected |-> <<>>]
             ELSE FilterLoop(cands, k + 1, b.selected, c)

HierarchicalFilter(boxes, c) ==
    FilterLoop(SortedByScoreThenArea(ScoreCut(boxes, c.min_score)), 1, <<>>, c)

---------------------------------------------------------------------------
(* _hierarchical_filter as a process *)

\* a second call's arguments and result
SecondCall(m, r) == [min_score |-> m, raised |-> r.raised, selected |-> r.selected]

NoResult == [min_score |-> 0, raised |-> FALSE, selected |-> <<>>]

\* a Layout of up to MaxBoxes boxes, in detection order
IsInputLayout(l, rects, scores) ==
    \E n \in 0..MaxBoxes :
        \E f \in [1..n -> rects \X scores] :
            l = [i \in 1..n |-> TextBlock(f[i][1], f[i][2], LabelOf(i))]

\* the state of the functions a behaviour does not run
AttachIdle == blocks = <<>> /\ spans = <<>> /\ alog = <<>>

MapIdle ==
    /\ page_h_pt = 0 /\ scale = <<1, 1>>
    /\ rect_pt = <<>> /\ image_xy = <<>> /\ utils_xy = <<>>

DocIdle ==
    /\ n_pages = 0 /\ resolved_mode = FALSE /\ results = <<>>
    /\ layout_analyzer = <<>> /\ builds = 0 /\ plog = <<>>

TextIdle == prev_text = <<>> /\ next_text = <<>> /\ need_space = <<>>

StructIdle == b_spans = <<>> /\ build = <<>>

LinkIdle == text_dict = <<>> /\ inline = <<>>

ParIdle == futures = <<>> /\ par = <<>>

CheckIdle == doc = <<>> /\ doc_json = <<>> /\ check = <<>>

LaterIdle == StructIdle /\ LinkIdle /\ ParIdle /\ CheckIdle

InitFilter ==
    /\ op = "filter"
    /\ IsInputLayout(layout, FilterRects, FilterScores)
    /\ cfg \in Configs
    /\ pc = "start"
    /\ candidates = <<>>
    /\ idx = 0
    /\ selected = <<>>
    /\ flog = <<>>
    /\ again = NoResult
    /\ ordered = <<>>
    /\ rect = <<>>
    /\ acc = 0
    /\ resolved = <<>>
    /\ rlog = <<>>
    /\ AttachIdle /\ MapIdle /\ DocIdle /\ TextIdle /\ LaterIdle

\* lines 122-125
FilterStart ==
    /\ op = "filter" /\ pc = "start"
    /\ candidates' = SortedByScoreThenArea(ScoreCut(layout, cfg.min_score))
    /\ selected' = <<>>
    /\ idx' = 1
    /\ pc' = "loop"
    /\ UNCHANGED <<op, layout, cfg, flog, again>>
    /\ UNCHANGED <<resolveVars, otherVars>>

Logged(box, body) ==
    Append(flog, [box |-> box, before |-> selected,
                  verdict |-> body.verdict, after |-> body.selected])

\* lines 127-128: the candidate is suppressed
FilterDiscard ==
    /\ op = "filter" /\ pc = "loop" /\ idx <= Len(candidates)
    /\ LET body == LoopBody(selected, candidates[idx], cfg)
       IN  /\ body.verdict = "discarded"
           /\ flog' = Logged(candidates[idx], body)
           /\ selected' = body.selected
    /\ idx' = idx + 1
    /\ UNCHANGED <<op, layout, cfg, pc, candidates, again>>
    /\ UNCHANGED <<resolveVars, otherVars>>

\* lines 129-130: the candidate is kept
FilterAccept ==
    /\ op = "filter" /\ pc = "loop" /\ idx <= Len(candidates)
    /\ LET body == LoopBody(selected, candidates[idx], cfg)
       IN  /\ body.verdict = "accepted"
           /\ flog' = Logged(candidates[idx], body)
           /\ selected' = body.selected
    /\ idx' = idx + 1
    /\ UNCHANGED <<op, layout, cfg, pc, candidates, again>>
    /\ UNCHANGED <<resolveVars, otherVars>>

\* line 129: _remove_superseded raises, the call ends without a result
FilterRaise ==
    /\ op = "filter" /\ pc = "loop" /\ idx <= Len(candidates)
    /\ LET body == LoopBody(selected, candidates[idx], cfg)
       IN  /\ body.verdict = "raised"
           /\ flog' = Logged(candidates[idx], body)
    /\ pc' = "raised"
    /\ UNCHANGED <<op, layout, cfg, candidates, idx, selected, again>>
    /\ UNCHANGED <<resolveVars, otherVars>>

\* line 131
FilterReturn ==
    /\ op = "filter" /\ pc = "loop" /\ idx > Len(candidates)
    /\ pc' = "returned"
    /\ UNCHANGED <<op, layout, cfg, candidates, idx, selected, flog, again>>
    /\ UNCHANGED <<resolveVars, otherVars>>

\* a second call on the first call's output, same keyword arguments
Refilter ==
    /\ op = "filter" /\ pc = "returned"
    /\ again' = SecondCall(cfg.min_score, HierarchicalFilter(selected, cfg))
    /\ pc' = "refiltered"
    /\ UNCHANGED <<op, layout, cfg, candidates, idx, selected, flog>>
    /\ UNCHANGED <<resolveVars, otherVars>>

\* a second call on the same input with min_score raised (or equal)
FilterAgainWithHigherMinScore ==
    /\ op = "filter" /\ pc \in {"returned", "raised"}
    /\ \E m \in MinScores :
         /\ m >= cfg.min_score
         /\ again' = SecondCall(m, HierarchicalFilter(layout,
                                         [cfg EXCEPT !.min_score = m]))
    /\ pc' = IF pc = "returned" THEN "compared" ELSE "raised_compared"
    /\ UNCHANGED <<op, layout, cfg, candidates, idx, selected, flog>>
    /\ UNCHANGED <<resolveVars, otherVars>>

NextFilter ==
    \/ FilterStart
    \/ FilterDiscard
    \/ FilterAccept
    \/ FilterRaise
    \/ FilterReturn
    \/ Refilter
    \/ FilterAgainWithHigherMinScore

SpecFilter == InitFilter /\ [][NextFilter]_vars

---------------------------------------------------------------------------
(* Overlap resolution *)

\* lines 134-140
RectIntersects(r1, r2) ==
    LET xi1 == Max(r1.x1, r2.x1)
        yi1 == Max(r1.y1, r2.y1)
        xi2 == Min(r1.x2, r2.x2)
        yi2 == Min(r1.y2, r2.y2)
    IN  (xi2 - xi1) > 0 /\ (yi2 - yi1) > 0

\* the Rectangle inside a TextBlock (blk.block)
BlockOf(b) == Rectangle(b.x1, b.y1, b.x2, b.y2)

\* variant: the top part is kept whatever the position of other
SubtractOverlapKeepingTop(src, other) ==
    IF ~RectIntersects(src, other) THEN <<src>>
    ELSE LET new_rect == Rectangle(src.x1, src.y1, src.x2, other.y1)
         IN  IF (new_rect.x2 - new_rect.x1) <= 0 \/ (new_rect.y2 - new_rect.y1) <= 0
             THEN <<>> ELSE <<new_rect>>

\* variant: the bottom part starts at other.y1 instead of other.y2
SubtractOverlapFromOtherTop(src, other) ==
    IF ~RectIntersects(src, other) THEN <<src>>
    ELSE LET new_rect ==
               IF src.y1 < other.y1 /\ other.y1 < src.y2
               THEN Rectangle(src.x1, src.y1, src.x2, other.y1)
               ELSE Rectangle(src.x1, other.y1, src.x2, src.y2)
         IN  IF (new_rect.x2 - new_rect.x1) <= 0 \/ (new_rect.y2 - new_rect.y1) <= 0
             THEN <<>> ELSE <<new_rect>>

\* _subtract_overlap; Optional[Rectangle]: <<>> is None, <<r>> is the rectangle r
SubtractOverlap(src, other) ==
    IF ~RectIntersects(src, other) THEN <<src>>
    ELSE LET new_rect ==
               IF src.y1 < other.y1 /\ other.y1 < src.y2
               THEN Rectangle(src.x1, src.y1, src.x2, other.y1)
               ELSE Rectangle(src.x1, other.y2, src.x2, src.y2)
         IN  IF (new_rect.x2 - new_rect.x1) <= 0 \/ (new_rect.y2 - new_rect.y1) <= 0
             THEN <<>> ELSE <<new_rect>>

\* b.area of a TextBlock: width * height of its rectangle
AreaOf(b) == (b.x2 - b.x1) * (b.y2 - b.y1)

\* sorted(layout, key=lambda b: b.area): stable, ascending
InsertByArea(s, b) ==
    LET k == Cardinality({i \in 1..Len(s) : AreaOf(s[i]) <= AreaOf(b)})
    IN  SubSeq(s, 1, k) \o <<b>> \o SubSeq(s, k + 1, Len(s))

RECURSIVE SortByAreaPrefix(_, _)
SortByAreaPrefix(boxes, n) ==
    IF n = 0 THEN <<>> ELSE InsertByArea(SortByAreaPrefix(boxes, n - 1), boxes[n])

\* variant: the largest block first
SortedByAreaDescending(boxes) ==
    LET up == SortByAreaPrefix(boxes, Len(boxes))
    IN  [i \in 1..Len(up) |-> up[Len(up) + 1 - i]]

\* variant: the list is sorted in place, as by list.sort
ArgumentSortedInPlace(boxes) == SortByAreaPrefix(boxes, Len(boxes))

\* line 156: sorted() builds a new list and leaves its argument as it is
ArgumentAfterSorted(boxes) == boxes

\* line 156
SortedByArea(boxes) == SortByAreaPrefix(boxes, Len(boxes))

\* variant: the score is not carried over
ResolvedBlockWithoutScore(r, blk) == TextBlock(r, <<0>>, blk.label)

\* line 169: the block appended for blk with its final rectangle
ResolvedBlock(r, blk) == TextBlock(r, <<ScoreOf(blk)>>, blk.label)

InitResolve ==
    /\ op = "resolve"
    /\ IsInputLayout(layout, ResolveRects, ResolveScores)
    /\ cfg = [min_score |-> 0, const_tresh |-> 0, iou_thresh |-> 0, tol |-> 0]
    /\ pc = "start"
    /\ candidates = <<>>
    /\ idx = 0
    /\ selected = <<>>
    /\ flog = <<>>
    /\ again = NoResult
    /\ ordered = <<>>
    /\ rect = <<>>
    /\ acc = 0
    /\ resolved = <<>>
    /\ rlog = <<>>
    /\ AttachIdle /\ MapIdle /\ DocIdle /\ TextIdle /\ LaterIdle

\* lines 156-157
ResolveStart ==
    /\ op = "resolve" /\ pc = "start"
    /\ ordered' = SortedByArea(layout)
    /\ layout' = ArgumentAfterSorted(layout)
    /\ resolved' = <<>>
    /\ idx' = 1
    /\ pc' = "outer"
    /\ UNCHANGED <<op, cfg, rect, acc, rlog>>
    /\ UNCHANGED <<filterVars, otherVars>>

\* lines 158-159: the next block of ordered
ResolveTake ==
    /\ op = "resolve" /\ pc = "outer" /\ idx <= Len(ordered)
    /\ rect' = <<BlockOf(ordered[idx])>>
    /\ acc' = 1
    /\ pc' = "inner"
    /\ UNCHANGED <<op, layout, cfg, idx, ordered, resolved, rlog>>
    /\ UNCHANGED <<filterVars, otherVars>>

\* line 161 false: the accepted block does not intersect rect
ResolvePass ==
    /\ op = "resolve" /\ pc = "inner" /\ acc <= Len(resolved)
    /\ ~RectIntersects(rect[1], BlockOf(resolved[acc]))
    /\ acc' = acc + 1
    /\ UNCHANGED <<op, layout, cfg, pc, idx, ordered, rect, resolved, rlog>>
    /\ UNCHANGED <<filterVars, otherVars>>

SubtractLogged(new_rect) ==
    Append(rlog, [blk |-> idx, acc |-> acc, r |-> rect[1],
                  a |-> BlockOf(resolved[acc]), out |-> new_rect])

\* lines 162-166: rect is clipped and the inner loop goes on
ResolveClip ==
    /\ op = "resolve" /\ pc = "inner" /\ acc <= Len(resolved)
    /\ RectIntersects(rect[1], BlockOf(resolved[acc]))
    /\ LET new_rect == SubtractOverlap(rect[1], BlockOf(resolved[acc]))
       IN  /\ new_rect # <<>>
           /\ rect' = new_rect
           /\ rlog' = SubtractLogged(new_rect)
    /\ acc' = acc + 1
    /\ UNCHANGED <<op, layout, cfg, pc, idx, ordered, resolved>>
    /\ UNCHANGED <<filterVars, otherVars>>

\* lines 163-165, 167-168: nothing is left of rect, the block is skipped
ResolveDrop ==
    /\ op = "resolve" /\ pc = "inner" /\ acc <= Len(resolved)
    /\ RectIntersects(rect[1], BlockOf(resolved[acc]))
    /\ LET new_rect == SubtractOverlap(rect[1], BlockOf(resolved[acc]))
       IN  /\ new_rect = <<>>
           /\ rect' = <<>>
           /\ rlog' = SubtractLogged(new_rect)
    /\ idx' = idx + 1
    /\ pc' = "outer"
    /\ UNCHANGED <<op, layout, cfg, ordered, acc, resolved>>
    /\ UNCHANGED <<filterVars, otherVars>>

\* line 169: the inner loop ended with a rectangle left
ResolveAppend ==
    /\ op = "resolve" /\ pc = "inner" /\ acc > Len(resolved)
    /\ resolved' = Append(resolved, ResolvedBlock(rect[1], ordered[idx]))
    /\ idx' = idx + 1
    /\ pc' = "outer"
    /\ UNCHANGED <<op, layout, cfg, ordered, rect, acc, rlog>>
    /\ UNCHANGED <<filterVars, otherVars>>

\* line 170
ResolveReturn ==
    /\ op = "resolve" /\ pc = "outer" /\ idx > Len(ordered)
    /\ pc' = "returned"
    /\ UNCHANGED <<op, layout, cfg, idx, ordered, rect, acc, resolved, rlog>>
    /\ UNCHANGED <<filterVars, otherVars>>

NextResolve ==
    \/ ResolveStart
    \/ ResolveTake
    \/ ResolvePass
    \/ ResolveClip
    \/ ResolveDrop
    \/ ResolveAppend
    \/ ResolveReturn

SpecResolve == InitResolve /\ [][NextResolve]_vars

---------------------------------------------------------------------------
(* Either function, on any input *)

Init == InitFilter \/ InitResolve

Next == NextFilter \/ NextResolve

Spec == Init /\ [][Next]_vars

---------------------------------------------------------------------------
(* Either function, on inputs that may hold degenerate rectangles *)

\* rectangles of zero or negative width (over y in [0,1]) or of zero or
\* negative height (over x in [0,1])
DegenerateRects ==
    {r \in {Rectangle(a, b, c, d) : a \in Coords, b \in Coords, c \in Coords, d \in Coords} :
        \/ r.y1 = 0 /\ r.y2 = 1 /\ r.x2 <= r.x1
        \/ r.x1 = 0 /\ r.x2 = 1 /\ r.y2 <= r.y1}

\* the degenerate rectangles together with some well-formed ones
AnyRects == DegenerateRects \cup {r \in Rects : r.x1 = 0 /\ r.y1 = 0}

AnyScores == {<<90>>}

InitDegenerate ==
    /\ op \in {"filter", "resolve"}
    /\ IsInputLayout(layout, AnyRects, AnyScores)
    /\ cfg \in IF op = "filter" THEN Configs
               ELSE {[min_score |-> 0, const_tresh |-> 0, iou_thresh |-> 0, tol |-> 0]}
    /\ pc = "start"
    /\ candidates = <<>>
    /\ idx = 0
    /\ selected = <<>>
    /\ flog = <<>>
    /\ again = NoResult
    /\ ordered = <<>>
    /\ rect = <<>>
    /\ acc = 0
    /\ resolved = <<>>
    /\ rlog = <<>>
    /\ AttachIdle /\ MapIdle /\ DocIdle /\ TextIdle /\ LaterIdle

SpecDegenerate == InitDegenerate /\ [][Next]_vars

\* C12: no region of zero or negative width or height is in the output of
\* _hierarchical_filter or of _resolve_overlaps
C12_NoDegenerateOutput ==
    /\ (op = "filter" /\ pc = "returned") =>
         \A k \in 1..Len(selected) :
            selected[k].x2 - selected[k].x1 > 0 /\ selected[k].y2 - selected[k].y1 > 0
    /\ (op = "resolve" /\ pc = "returned") =>
         \A k \in 1..Len(resolved) :
            resolved[k].x2 - resolved[k].x1 > 0 /\ resolved[k].y2 - resolved[k].y1 > 0

---------------------------------------------------------------------------
(* Properties of _resolve_overlaps, checked under SpecResolve *)

Range(s) == {s[i] : i \in 1..Len(s)}

\* C1: any two distinct regions of the resolver's output (and of `resolved`
\* at every moment of the run) have intersection area 0
C1_Disjoint ==
    \A i, j \in 1..Len(resolved) :
        i # j => InterArea(resolved[i], resolved[j]) = 0

\* an input with overlapping regions was resolved into two or more regions,
\* at least one of them clipped
C1_Witness ==
    /\ op = "resolve" /\ pc = "returned"
    /\ Len(resolved) >= 2
    /\ \E i, j \in 1..Len(layout) : i # j /\ InterArea(layout[i], layout[j]) > 0
    /\ \E k \in 1..Len(rlog) : rlog[k].out # <<>>

\* the rectangle the subtraction rule prescribes for r against a
C9_Expected(r, a) ==
    IF r.y1 < a.y1 /\ a.y1 < r.y2
    THEN Rectangle(r.x1, r.y1, r.x2, a.y1)
    ELSE Rectangle(r.x1, a.y2, r.x2, r.y2)

C9_Degenerate(r) == r.x2 - r.x1 <= 0 \/ r.y2 - r.y1 <= 0

\* C9: every subtraction of an accepted region a from an intersecting r
\* yields [r.x1, r.y1, r.x2, a.y1] if r.y1 < a.y1 < r.y2 and
\* [r.x1, a.y2, r.x2, r.y2] otherwise; a degenerate result drops r, which is
\* then compared with no further accepted region and not appended; otherwise
\* the shrunk r goes on to the remaining accepted regions, so that r is
\* disjoint from every accepted region it has passed.  On A=[0,0,100,50],
\* B=[0,0,100,100], B is clipped to [0,50,100,100] and A is left alone.
C9_SubtractionRule ==
    /\ \A k \in 1..Len(rlog) :
         LET e == rlog[k]
             want == C9_Expected(e.r, e.a)
         IN  /\ InterArea(e.r, e.a) > 0
             /\ e.out = IF C9_Degenerate(want) THEN <<>> ELSE <<want>>
             /\ k < Len(rlog) /\ rlog[k + 1].blk = e.blk =>
                  /\ e.out # <<>>
                  /\ rlog[k + 1].r = e.out[1]
                  /\ rlog[k + 1].acc > e.acc
             /\ e.out = <<>> =>
                  \A b \in Range(resolved) : b.label # ordered[e.blk].label
    /\ pc = "inner" =>
         \A k \in 1..(acc - 1) : InterArea(rect[1], resolved[k]) = 0
    /\ SubtractOverlap(Rectangle(0, 0, 100, 100), Rectangle(0, 0, 100, 50))
         = <<Rectangle(0, 50, 100, 100)>>

\* the example at grid scale (one grid unit for 50): A unchanged, B clipped
C9_Witness ==
    /\ op = "resolve" /\ pc = "returned"
    /\ Len(layout) = 2 /\ Len(resolved) = 2
    /\ BlockOf(layout[1]) = Rectangle(0, 0, 2, 1)
    /\ BlockOf(layout[2]) = Rectangle(0, 0, 2, 2)
    /\ BlockOf(resolved[1]) = Rectangle(0, 0, 2, 1)
    /\ BlockOf(resolved[2]) = Rectangle(0, 1, 2, 2)

\* C10: the output has at most as many regions as the input; each output
\* region has the label and score of an input region, no two of the same one,
\* and its rectangle has that region's x1 and x2 and lies inside it
C10_OnePerInput ==
    /\ Len(resolved) <= Len(layout)
    /\ \A k \in 1..Len(resolved) :
         \E i \in 1..Len(layout) :
            /\ resolved[k].label = layout[i].label
            /\ ScoreOf(resolved[k]) = ScoreOf(layout[i])
            /\ resolved[k].x1 = layout[i].x1
            /\ resolved[k].x2 = layout[i].x2
            /\ layout[i].y1 <= resolved[k].y1
            /\ resolved[k].y1 < resolved[k].y2
            /\ resolved[k].y2 <= layout[i].y2
    /\ \A k1, k2 \in 1..Len(resolved) :
         k1 # k2 => resolved[k1].label # resolved[k2].label

\* three regions in: one kept whole, one clipped, one dropped
C10_Witness ==
    /\ op = "resolve" /\ pc = "returned"
    /\ Len(layout) = 3 /\ Len(resolved) = 2
    /\ \E k \in 1..2 : \E i \in 1..3 :
         /\ resolved[k].label = layout[i].label
         /\ BlockOf(resolved[k]) # BlockOf(layout[i])
    /\ \E k \in 1..Len(rlog) : rlog[k].out = <<>>

\* the position in the input of the block with b's label
InputPosition(b) == CHOOSE i \in 1..Len(layout) : layout[i].label = b.label

\* the position in `ordered` of the block the accepted region k came from
OrderedPosition(k) ==
    CHOOSE j \in 1..Len(ordered) : ordered[j].label = resolved[k].label

---------------------------------------------------------------------------
(* Properties of _hierarchical_filter, checked under SpecFilter *)

\* c is redundant with the selected region s (the three suppression rules)
Redundant(c, s) ==
    \/ Contains(s, c, cfg.tol)
    \/ AtLeast(ContainmentRatio(c, s), cfg.const_tresh)
    \/ AtLeast(Iou(c, s), cfg.iou_thresh)

\* s is superseded by c: the same three rules in the opposite direction
Superseded(s, c) ==
    \/ Contains(c, s, cfg.tol)
    \/ AtLeast(ContainmentRatio(s, c), cfg.const_tresh)
    \/ AtLeast(Iou(c, s), cfg.iou_thresh)

\* C2: a candidate that no selected region makes redundant is accepted: the
\* selected regions it supersedes are removed, the others kept in order, the
\* candidate appended; and the call returns the final selected list
C2_AcceptEvictsSuperseded ==
    /\ \A k \in 1..Len(flog) :
         LET e == flog[k]
         IN  (\A s \in Range(e.before) : ~Redundant(e.box, s)) =>
                /\ e.verdict = "accepted"
                /\ e.after = Append(SelectSeq(e.before,
                                      LAMBDA s : ~Superseded(s, e.box)), e.box)
    /\ pc # "raised"

\* C3: a processed candidate is discarded if and only if some region selected
\* at that moment contains it within tol, or covers at least const_tresh of
\* it, or has IoU at least iou_thresh with it
C3_DiscardedIffRedundant ==
    \A k \in 1..Len(flog) :
        LET e == flog[k]
        IN  /\ (e.verdict = "discarded") <=>
                 (\E s \in Range(e.before) :
                     \/ Contains(s, e.box, cfg.tol)
                     \/ AtLeast(ContainmentRatio(e.box, s), cfg.const_tresh)
                     \/ AtLeast(Iou(e.box, s), cfg.iou_thresh))
            /\ e.verdict = "discarded" => e.after = e.before

\* a candidate was discarded by the containment-ratio rule alone
C3_Witness ==
    \E k \in 1..Len(flog) :
        /\ flog[k].verdict = "discarded"
        /\ \A s \in Range(flog[k].before) :
             /\ ~Contains(s, flog[k].box, cfg.tol)
             /\ ~AtLeast(Iou(flog[k].box, s), cfg.iou_thresh)

\* C4: both calls return, and the call with the higher min_score returns no
\* more regions than the call with the lower one
C4_MonotonicCount ==
    pc \in {"compared", "raised_compared"} =>
        /\ pc = "compared"
        /\ ~again.raised
        /\ Len(again.selected) <= Len(selected)

\* B's rectangle lies inside A's (no tolerance)
Inside(b, a) ==
    b.x1 >= a.x1 /\ b.y1 >= a.y1 /\ b.x2 <= a.x2 /\ b.y2 <= a.y2

\* C5: an input region B that lies inside an input region A of higher score
\* (B's score at least min_score) is not in the returned layout
C5_ContainedRemoved ==
    pc = "returned" =>
        \A i, j \in 1..Len(layout) :
            ( /\ i # j
              /\ ScoreOf(layout[i]) > ScoreOf(layout[j])
              /\ ScoreOf(layout[j]) >= cfg.min_score
              /\ Inside(layout[j], layout[i]) )
            => layout[j] \notin Range(selected)

\* such A and B among three candidates, and the call returned a region
C5_Witness ==
    /\ pc = "returned" /\ Len(layout) = 3 /\ Len(selected) = 1
    /\ \E i, j \in 1..3 :
         /\ i # j
         /\ ScoreOf(layout[i]) > ScoreOf(layout[j])
         /\ ScoreOf(layout[j]) >= cfg.min_score
         /\ Inside(layout[j], layout[i])
         /\ BlockOf(layout[j]) # BlockOf(layout[i])

\* C6: every call returns, and the filter applied to its output returns the
\* same regions in the same order
C6_Idempotent ==
    /\ pc # "raised"
    /\ pc = "refiltered" => ~again.raised /\ again.selected = selected

\* C7: no two returned regions are in conflict (IoU below iou_thresh, neither
\* within the other expanded by tol, both containment ratios below
\* const_tresh), and of two candidates with IoU at least iou_thresh the one
\* later in the processing order is not returned
C7_ConflictFree ==
    pc = "returned" =>
        /\ \A i, j \in 1..Len(selected) :
             i # j =>
                /\ ~AtLeast(Iou(selected[i], selected[j]), cfg.iou_thresh)
                /\ ~Contains(selected[i], selected[j], cfg.tol)
                /\ ~AtLeast(ContainmentRatio(selected[i], selected[j]),
                            cfg.const_tresh)
        /\ \A i, j \in 1..Len(candidates) :
             (i < j /\ AtLeast(Iou(candidates[i], candidates[j]), cfg.iou_thresh))
             => candidates[j] \notin Range(selected)

\* two candidates that only the IoU rule puts in conflict; the first survives
C7_Witness ==
    /\ pc = "returned"
    /\ \E i, j \in 1..Len(candidates) :
         /\ i < j
         /\ AtLeast(Iou(candidates[i], candidates[j]), cfg.iou_thresh)
         /\ ~Contains(candidates[i], candidates[j], cfg.tol)
         /\ ~AtLeast(ContainmentRatio(candidates[j], candidates[i]),
                     cfg.const_tresh)
         /\ selected = <<candidates[i]>>

Occurrences(s, x) == Cardinality({i \in 1..Len(s) : s[i] = x})

\* C8: every returned region is an input box, unchanged (rectangle, score
\* attribute, label), of score at least min_score (0 for a missing score),
\* and is returned no more often than it occurs in the input
C8_OutputFromInput ==
    pc = "returned" =>
        \A k \in 1..Len(selected) :
            /\ selected[k] \in Range(layout)
            /\ ScoreOf(selected[k]) >= cfg.min_score
            /\ Occurrences(selected, selected[k]) <= Occurrences(layout, selected[k])

\* the score cut removed a box, and the survivor's score is exactly min_score
C8_Witness ==
    /\ pc = "returned" /\ Len(selected) = 1
    /\ \E i \in 1..Len(layout) : ScoreOf(layout[i]) < cfg.min_score
    /\ ScoreOf(selected[1]) = cfg.min_score

\* equality of two fractions
SameFraction(f, g) == f[1] * g[2] = g[1] * f[2]

\* the intersection area of a and b over the area of the smaller of the two
C17_OverSmaller(a, b) ==
    IF Min(BoxArea(a), BoxArea(b)) > 0
    THEN <<InterArea(a, b), Min(BoxArea(a), BoxArea(b))>>
    ELSE <<0, 1>>

\* C17 as stated: the containment ratio the suppressor computes for a
\* candidate and a selected region is their intersection area over the area
\* of the smaller of the two, whichever is passed first
C17_RatioOfSmaller ==
    \A n \in 1..Len(flog) :
        \A k \in 1..Len(flog[n].before) :
            LET c == flog[n].box
                sel == flog[n].before[k]
            IN  /\ SameFraction(ContainmentRatio(c, sel), C17_OverSmaller(c, sel))
                /\ SameFraction(ContainmentRatio(c, sel), ContainmentRatio(sel, c))

\* C17, amended: the containment ratio is the intersection area over the
\* area of the first argument (0 when that area is 0); the suppressor passes
\* the candidate first, so a candidate larger than the selected region is
\* measured by its own area, and is not discarded by the ratio rule when
\* only the share of the smaller selected region reaches the threshold
\* (an iteration is looked at in the state that follows it, where its
\* record is the newest of the log)
C17_RatioOfFirstArgument ==
    /\ \A n \in {Len(flog)} \ {0} :
         \A k \in 1..Len(flog[n].before) :
            LET c == flog[n].box
                sel == flog[n].before[k]
                ratio == ContainmentRatio(c, sel)
            IN  /\ BoxArea(c) > 0 =>
                     ratio[1] * BoxArea(c) = InterArea(c, sel) * ratio[2]
                /\ BoxArea(c) = 0 => ratio[1] = 0
                /\ (/\ Len(flog[n].before) = 1
                    /\ ~Contains(sel, c, cfg.tol)
                    /\ ~AtLeast(Iou(c, sel), cfg.iou_thresh)
                    /\ InterArea(c, sel) * 100 < cfg.const_tresh * BoxArea(c))
                      => flog[n].verdict # "discarded"
    /\ ContainmentRatio(Rectangle(0, 0, 0, 1), Rectangle(0, 0, 1, 1)) = <<0, 1>>

\* a candidate larger than the selected region and covering it: the share
\* of the smaller region reaches the threshold, the candidate's own share
\* does not, and the candidate is not discarded
C17_Witness ==
    /\ op = "filter"
    /\ \E n \in 1..Len(flog) :
         /\ Len(flog[n].before) = 1
         /\ BoxArea(flog[n].box) > BoxArea(flog[n].before[1])
         /\ AtLeast(C17_OverSmaller(flog[n].box, flog[n].before[1]), cfg.const_tresh)
         /\ ~AtLeast(ContainmentRatio(flog[n].box, flog[n].before[1]), cfg.const_tresh)
         /\ flog[n].verdict # "discarded"

---------------------------------------------------------------------------
(* Coordinate mapping: LayoutAnalyzer._rect_to_image_xy and                *)
(* utils.rect_to_image_xy                                                  *)
(*                                                                         *)
(* Page-space coordinates are integers (points).  The scale is a fraction  *)
(* <<n, d>> of pixels per point, and every pixel-space quantity is kept    *)
(* exactly, as its numerator over the denominator d of the scale in use:   *)
(* the product v * scale is the number v * n.                              *)

\* the rendering resolution, dots per inch
DEFAULT_DPI == 300

\* the scale of analyze_page_with_resolved_text: DEFAULT_DPI / 72.0
DefaultScale == <<DEFAULT_DPI, 72>>

\* scales the mapping is applied with
Scales == {<<1, 1>>, <<2, 1>>, <<1, 2>>, DefaultScale}

\* the page height of the pages text is attached on (points)
PageHeightPt == 3

\* page heights the mapping is applied with
PageHeights == 1..(PageHeightPt + 1)

\* page-space grid coordinates
PtCoords == 0..3

\* fitz.Rect(x0, y0, x1, y1)
FitzRect(a, b, c, d) == [x0 |-> a, y0 |-> b, x1 |-> c, y1 |-> d]

\* the rectangles with x0 <= x1 and y0 <= y1 on the grid
PtRects ==
    {r \in {FitzRect(a, b, c, d) : a \in PtCoords, b \in PtCoords,
                                   c \in PtCoords, d \in PtCoords} :
        r.x0 <= r.x1 /\ r.y0 <= r.y1}

\* v * scale, as a numerator over sc[2]
Times(v, sc) == v * sc[1]

\* variant: the two vertical edges are not exchanged
RectToImageXYUnswapped(r, page_height_pt, sc) ==
    LET x1 == Times(r.x0, sc)
        y1 == Times(page_height_pt - r.y0, sc)
        x2 == Times(r.x1, sc)
        y2 == Times(page_height_pt - r.y1, sc)
    IN  <<x1, y1, x2, y2>>

\* variant: the vertical axis is not flipped
RectToImageXYUnflipped(r, page_height_pt, sc) ==
    LET x1 == Times(r.x0, sc)
        y1 == Times(r.y0, sc)
        x2 == Times(r.x1, sc)
        y2 == Times(r.y1, sc)
    IN  <<x1, y1, x2, y2>>

\* LayoutAnalyzer._rect_to_image_xy
RectToImageXY(r, page_height_pt, sc) ==
    LET x1 == Times(r.x0, sc)
        y1 == Times(page_height_pt - r.y1, sc)
        x2 == Times(r.x1, sc)
        y2 == Times(page_height_pt - r.y0, sc)
    IN  <<x1, y1, x2, y2>>

\* utils.rect_to_image_xy
UtilsRectToImageXY(r, page_height_pt, sc) ==
    LET x1 == Times(r.x0, sc)
        y1 == Times(page_height_pt - r.y1, sc)
        x2 == Times(r.x1, sc)
        y2 == Times(page_height_pt - r.y0, sc)
    IN  <<x1, y1, x2, y2>>

LayoutIdle ==
    /\ layout = <<>>
    /\ cfg = [min_score |-> 0, const_tresh |-> 0, iou_thresh |-> 0, tol |-> 0]
    /\ candidates = <<>> /\ selected = <<>> /\ flog = <<>> /\ again = NoResult
    /\ ordered = <<>> /\ rect = <<>> /\ acc = 0 /\ resolved = <<>> /\ rlog = <<>>

InitMap ==
    /\ op = "map" /\ pc = "start" /\ idx = 0
    /\ rect_pt \in {<<r>> : r \in PtRects}
    /\ page_h_pt \in PageHeights
    /\ scale \in Scales
    /\ image_xy = <<>>
    /\ utils_xy = <<>>
    /\ LayoutIdle /\ AttachIdle /\ DocIdle /\ TextIdle /\ LaterIdle

\* a call of LayoutAnalyzer._rect_to_image_xy
CallRectToImageXY ==
    /\ op = "map" /\ image_xy = <<>>
    /\ image_xy' = <<RectToImageXY(rect_pt[1], page_h_pt, scale)>>
    /\ UNCHANGED <<op, pc, idx, page_h_pt, scale, rect_pt, utils_xy>>
    /\ UNCHANGED <<layoutVars, attachVars, docVars, textVars, laterVars>>

\* a call of utils.rect_to_image_xy on the same arguments
CallUtilsRectToImageXY ==
    /\ op = "map" /\ utils_xy = <<>>
    /\ utils_xy' = <<UtilsRectToImageXY(rect_pt[1], page_h_pt, scale)>>
    /\ UNCHANGED <<op, pc, idx, page_h_pt, scale, rect_pt, image_xy>>
    /\ UNCHANGED <<layoutVars, attachVars, docVars, textVars, laterVars>>

NextMap ==
    \/ CallRectToImageXY
    \/ CallUtilsRectToImageXY

SpecMap == InitMap /\ [][NextMap]_vars

\* a returned tuple (x1, y1, x2, y2) is ordered on both axes
WellFormedXY(t) == t[1] <= t[3] /\ t[2] <= t[4]

\* C15: for a rectangle with x0 <= x1 and y0 <= y1, a page height H and a
\* scale > 0, _rect_to_image_xy returns
\* (x0*scale, (H - y1)*scale, x1*scale, (H - y0)*scale), which is ordered
\* on both axes, and utils.rect_to_image_xy returns the same tuple
C15_ImageXY ==
    op = "map" =>
        LET r == rect_pt[1]
            n == scale[1]
            want == <<r.x0 * n, (page_h_pt - r.y1) * n,
                      r.x1 * n, (page_h_pt - r.y0) * n>>
        IN  /\ r.x0 <= r.x1 /\ r.y0 <= r.y1 /\ scale[1] > 0 /\ scale[2] > 0
            /\ image_xy # <<>> =>
                 image_xy[1] = want /\ WellFormedXY(image_xy[1])
            /\ utils_xy # <<>> =>
                 utils_xy[1] = want /\ WellFormedXY(utils_xy[1])
            /\ (image_xy # <<>> /\ utils_xy # <<>>) => image_xy = utils_xy

\* both functions were called on a rectangle of positive width and height
\* at the scale 300/72, and the vertical edges changed places
C15_Witness ==
    /\ op = "map" /\ image_xy # <<>> /\ utils_xy # <<>>
    /\ scale = DefaultScale
    /\ rect_pt[1].x0 < rect_pt[1].x1 /\ rect_pt[1].y0 < rect_pt[1].y1
    /\ image_xy[1][2] = (page_h_pt - rect_pt[1].y1) * DEFAULT_DPI
    /\ image_xy[1][2] < image_xy[1][4]

\* a pixel-space value divided by the scale: (num/d) / (n/d) = num/n
Unscaled(num, sc) == num \div sc[1]

---------------------------------------------------------------------------
(* Text: TextExtractor.need_space_between                                  *)
(*                                                                         *)
(* A string is a sequence of characters; a character is a one-character    *)
(* string, except "nbsp" (U+00A0, no-break space) and "laquo" (U+00AB, the *)
(* left guillemet), which stand for one non-ASCII character each, and      *)
(* "quote", "apostrophe", "backslash" and "backtick", which stand for the  *)
(* ASCII characters of those names.                                        *)

\* longest argument string
MaxLen == 2

\* characters the argument strings are made of
Alphabet == {"a", "7", " ", "nbsp", ".", "!", "laquo"}

\* the characters of the alphabet for which str.isspace() is true
Whitespace == {" ", "nbsp"}

\* string.punctuation
Punctuation ==
    {"!", "quote", "#", "$", "%", "&", "apostrophe", "(", ")", "*", "+", ",",
     "-", ".", "/", ":", ";", "<", "=", ">", "?", "@", "[", "backslash", "]",
     "^", "_", "backtick", "{", "|", "}", "~"}

IsSpace(c) == c \in Whitespace

Strings == UNION {[1..k -> Alphabet] : k \in 0..MaxLen}

\* variant: the punctuation test reads the last character of next_text
NeedSpaceBetweenLastOfNext(prev, next) ==
    IF prev = <<>> \/ next = <<>> THEN FALSE
    ELSE IF IsSpace(prev[Len(prev)]) \/ IsSpace(next[1]) THEN FALSE
    ELSE IF prev[Len(prev)] \in Punctuation THEN FALSE
    ELSE IF next[Len(next)] \in Punctuation THEN FALSE
    ELSE TRUE

\* TextExtractor.need_space_between
NeedSpaceBetween(prev, next) ==
    IF prev = <<>> \/ next = <<>> THEN FALSE
    ELSE IF IsSpace(prev[Len(prev)]) \/ IsSpace(next[1]) THEN FALSE
    ELSE IF prev[Len(prev)] \in Punctuation THEN FALSE
    ELSE IF next[1] \in Punctuation THEN FALSE
    ELSE TRUE

InitText ==
    /\ op = "text" /\ pc = "start" /\ idx = 0
    /\ prev_text \in Strings
    /\ next_text \in Strings
    /\ need_space = <<>>
    /\ LayoutIdle /\ AttachIdle /\ MapIdle /\ DocIdle /\ LaterIdle

\* a call of need_space_between(prev_text, next_text)
CallNeedSpaceBetween ==
    /\ op = "text" /\ need_space = <<>>
    /\ need_space' = <<NeedSpaceBetween(prev_text, next_text)>>
    /\ UNCHANGED <<op, pc, idx, prev_text, next_text>>
    /\ UNCHANGED <<layoutVars, attachVars, mapVars, docVars, laterVars>>

NextText == CallNeedSpaceBetween

SpecText == InitText /\ [][NextText]_vars

\* whitespace or ASCII punctuation
SpaceOrAsciiPunctuation(c) ==
    \/ c \in {" ", "nbsp"}
    \/ c \in {".", "!"}

\* C20: need_space_between(prev, next) is True exactly when both strings are
\* non-empty, the last character of prev is neither whitespace nor ASCII
\* punctuation, and the first character of next is neither whitespace nor
\* ASCII punctuation; punctuation later in next does not matter
C20_NeedSpace ==
    (op = "text" /\ need_space # <<>>) =>
        need_space[1] =
            (/\ Len(prev_text) > 0
             /\ Len(next_text) > 0
             /\ ~SpaceOrAsciiPunctuation(prev_text[Len(prev_text)])
             /\ ~SpaceOrAsciiPunctuation(next_text[1]))

\* a space is needed before a word that ends in punctuation ("world!"),
\* and after a non-ASCII punctuation mark
C20_Witness ==
    /\ op = "text" /\ need_space = <<TRUE>>
    /\ \/ prev_text = <<"a">> /\ next_text = <<"a", "!">>
       \/ prev_text = <<"a", "laquo">> /\ next_text = <<"7">>

---------------------------------------------------------------------------
(* Text attachment: LayoutAnalyzer._attach_text                            *)
(*                                                                         *)
(* Pixel-space rectangles (bbox_px and the mapped span rectangles) are in  *)
(* the exact units of the coordinate mapping: numerators over the          *)
(* denominator of the scale.                                               *)

\* most blocks handed to _attach_text
MaxRegions == 2

\* most spans on the page
MaxSpans == 2

\* str.strip(): leading and trailing whitespace removed
RECURSIVE LStrip(_)
LStrip(t) == IF t # <<>> /\ IsSpace(t[1]) THEN LStrip(Tail(t)) ELSE t

RECURSIVE RStrip(_)
RStrip(t) ==
    IF t # <<>> /\ IsSpace(t[Len(t)]) THEN RStrip(SubSeq(t, 1, Len(t) - 1)) ELSE t

Strip(t) == RStrip(LStrip(t))

\* bbox_px of the blocks: full-width bands between scaled grid lines
RegionRects ==
    {Rectangle(0, Times(p[1], DefaultScale), Times(2, DefaultScale), Times(p[2], DefaultScale)) :
        p \in {q \in PtCoords \X PtCoords : q[1] < q[2]}}

\* the spans: a word in a band of the page, or a span without text
SpanShapes ==
    {[bbox |-> FitzRect(0, p[1], 1, p[2]), kind |-> "word"] :
        p \in {q \in PtCoords \X PtCoords : q[1] < q[2]}}
    \cup {[bbox |-> FitzRect(0, 0, 1, 1), kind |-> k] : k \in {"empty", "space"}}

\* the i-th span's word has the i-th letter, so every word is traceable
SpanLetter(i) == <<"a", "b", "c", "d">>[((i - 1) % 4) + 1]

\* sp.get("text"): a word followed by a space, whitespace only, or nothing
SpanText(kind, i) ==
    IF kind = "word" THEN <<SpanLetter(i), " ">>
    ELSE IF kind = "space" THEN <<" ", "nbsp">>
    ELSE <<>>

\* the spans of page.get_text("dict"), blocks and lines flattened, in order
IsInputSpans(s) ==
    \E n \in 0..MaxSpans :
        \E f \in [1..n -> SpanShapes] :
            s = [i \in 1..n |-> [bbox |-> f[i].bbox, text |-> SpanText(f[i].kind, i)]]

\* lines 225-228: the blocks as analyze_page_with_resolved_text builds them
IsInputBlocks(b) ==
    \E n \in 0..MaxRegions :
        \E f \in [1..n -> RegionRects] :
            b = [i \in 1..n |-> [text |-> <<>>, bbox_px |-> f[i], type |-> LabelOf(i)]]

\* variant: the image of _rect_to_image_xy is used as it is
ToPxWithoutFlipBack(rect_p, page_h, sc) ==
    LET xy == RectToImageXY(rect_p, page_h, sc)
    IN  Rectangle(xy[1], xy[2], xy[3], xy[4])

\* lines 185, 187-189: to_px_flipped
ToPxFlipped(rect_p, page_h, sc) ==
    LET page_h_px == Times(page_h, sc)
        xy == RectToImageXY(rect_p, page_h, sc)
    IN  Rectangle(xy[1], page_h_px - xy[4], xy[3], page_h_px - xy[2])

\* lines 197-200: the first block, from position k on, that the span's
\* rectangle intersects (0: none)
RECURSIVE FirstTarget(_, _, _)
FirstTarget(px, blks, k) ==
    IF k > Len(blks) THEN 0
    ELSE IF RectIntersects(px, blks[k].bbox_px) THEN k
    ELSE FirstTarget(px, blks, k + 1)

\* variant: the last block the span's rectangle intersects
LastIntersecting(px, blks) ==
    LET hits == {k \in 1..Len(blks) : RectIntersects(px, blks[k].bbox_px)}
    IN  IF hits = {} THEN 0 ELSE CHOOSE k \in hits : \A j \in hits : j <= k

\* the block the inner loop stops at
TargetOf(px, blks) == FirstTarget(px, blks, 1)

InitAttach ==
    /\ op = "attach" /\ pc = "start" /\ idx = 0
    /\ IsInputBlocks(blocks)
    /\ IsInputSpans(spans)
    /\ alog = <<>>
    /\ page_h_pt = PageHeightPt
    /\ scale = DefaultScale
    /\ rect_pt = <<>> /\ image_xy = <<>> /\ utils_xy = <<>>
    /\ LayoutIdle /\ DocIdle /\ TextIdle /\ LaterIdle

\* lines 184-185, 191: the page height is read, the loop over spans begins
AttachStart ==
    /\ op = "attach" /\ pc = "start"
    /\ idx' = 1
    /\ pc' = "spans"
    /\ UNCHANGED <<op, attachVars>>
    /\ UNCHANGED <<layoutVars, mapVars, docVars, textVars, laterVars>>

\* lines 194-196: a span without text is skipped
AttachSkipBlank ==
    /\ op = "attach" /\ pc = "spans" /\ idx <= Len(spans)
    /\ Strip(spans[idx].text) = <<>>
    /\ idx' = idx + 1
    /\ UNCHANGED <<op, pc, attachVars>>
    /\ UNCHANGED <<layoutVars, mapVars, docVars, textVars, laterVars>>

AttachLogged(txt, px, k) ==
    Append(alog, [span |-> idx, txt |-> txt, px |-> px, target |-> k])

\* lines 197-201: the text goes to the first block intersected
AttachAppend ==
    /\ op = "attach" /\ pc = "spans" /\ idx <= Len(spans)
    /\ LET txt == Strip(spans[idx].text)
           span_rect_px == ToPxFlipped(spans[idx].bbox, page_h_pt, scale)
           k == TargetOf(span_rect_px, blocks)
       IN  /\ txt # <<>>
           /\ k > 0
           /\ blocks' = [blocks EXCEPT ![k].text = @ \o txt \o <<" ">>]
           /\ alog' = AttachLogged(txt, span_rect_px, k)
    /\ idx' = idx + 1
    /\ UNCHANGED <<op, pc, spans>>
    /\ UNCHANGED <<layoutVars, mapVars, docVars, textVars, laterVars>>

\* lines 197-199: no block is intersected, the inner loop ends without effect
AttachMiss ==
    /\ op = "attach" /\ pc = "spans" /\ idx <= Len(spans)
    /\ LET txt == Strip(spans[idx].text)
           span_rect_px == ToPxFlipped(spans[idx].bbox, page_h_pt, scale)
       IN  /\ txt # <<>>
           /\ TargetOf(span_rect_px, blocks) = 0
           /\ alog' = AttachLogged(txt, span_rect_px, 0)
    /\ idx' = idx + 1
    /\ UNCHANGED <<op, pc, blocks, spans>>
    /\ UNCHANGED <<layoutVars, mapVars, docVars, textVars, laterVars>>

\* the loops are over
AttachReturn ==
    /\ op = "attach" /\ pc = "spans" /\ idx > Len(spans)
    /\ pc' = "returned"
    /\ UNCHANGED <<op, idx, attachVars>>
    /\ UNCHANGED <<layoutVars, mapVars, docVars, textVars, laterVars>>

NextAttach ==
    \/ AttachStart
    \/ AttachSkipBlank
    \/ AttachAppend
    \/ AttachMiss
    \/ AttachReturn

SpecAttach == InitAttach /\ [][NextAttach]_vars

---------------------------------------------------------------------------
(* Properties of _attach_text, checked under SpecAttach *)

\* the text appended to block k by the first n spans logged
RECURSIVE GatheredText(_, _)
GatheredText(k, n) ==
    IF n = 0 THEN <<>>
    ELSE GatheredText(k, n - 1)
           \o (IF alog[n].target = k THEN alog[n].txt \o <<" ">> ELSE <<>>)

\* the set of blocks whose rectangle the pixel rectangle px overlaps
Overlapped(px) == {k \in 1..Len(blocks) : InterArea(px, blocks[k].bbox_px) > 0}

\* C13: every non-blank span is logged once, a blank one never; the text of
\* a non-blank span goes to the first block, in the given order, whose
\* rectangle its mapped rectangle overlaps with positive area, and to no
\* other block; a span overlapping no block changes no block's text
C13_FirstMatchOnly ==
    op = "attach" =>
        /\ \A n \in 1..Len(alog) :
             LET e == alog[n]
             IN  /\ e.txt # <<>> /\ e.txt = Strip(spans[e.span].text)
                 /\ n > 1 => alog[n - 1].span < e.span
                 /\ e.target = 0 <=> Overlapped(e.px) = {}
                 /\ e.target # 0 =>
                      /\ e.target \in Overlapped(e.px)
                      /\ \A j \in Overlapped(e.px) : e.target <= j
        /\ \A i \in 1..Len(spans) :
             (i < idx /\ Strip(spans[i].text) # <<>>)
                <=> (\E n \in 1..Len(alog) : alog[n].span = i)
        /\ \A k \in 1..Len(blocks) :
             blocks[k].text = GatheredText(k, Len(alog))

\* two blocks overlapped by the first span, which went to the first block
\* only; the second span, a blank one, went nowhere
C13_Witness ==
    /\ op = "attach" /\ pc = "returned"
    /\ Len(blocks) = 2 /\ Len(spans) = 2 /\ Len(alog) = 1
    /\ Overlapped(alog[1].px) = {1, 2}
    /\ blocks[1].text = <<"a", " ">>
    /\ blocks[2].text = <<>>
    /\ spans[2].text = <<" ", "nbsp">>

\* r lies inside outer
Within(r, outer) ==
    r.x1 >= outer.x1 /\ r.y1 >= outer.y1 /\ r.x2 <= outer.x2 /\ r.y2 <= outer.y2

\* toPixel(rect, pageHeightPts, scale) of the coordinate mapper:
\* [x0*s, (H - y1)*s, x1*s, (H - y0)*s]
C14_ToPixel(r) ==
    Rectangle(r.x0 * scale[1], (page_h_pt - r.y1) * scale[1],
              r.x1 * scale[1], (page_h_pt - r.y0) * scale[1])

\* the rectangle scaled without a flip: [x0*s, y0*s, x1*s, y1*s]
C14_Scaled(r) ==
    Rectangle(r.x0 * scale[1], r.y0 * scale[1], r.x1 * scale[1], r.y1 * scale[1])

\* a pixel rectangle mirrored in the horizontal midline of the page image
C14_Mirrored(r) ==
    Rectangle(r.x1, page_h_pt * scale[1] - r.y2, r.x2, page_h_pt * scale[1] - r.y1)

---------------------------------------------------------------------------
(* Document.analyze_document, with Page.analyze_page and the lazy model of *)
(* LayoutAnalyzer._get_model                                               *)
(*                                                                         *)
(* A page's analysis either goes through or raises an Exception at some    *)
(* point of analyze_page; which of the two is not determined by the model. *)
(* Pages are visited by position idx = 1..n_pages; the result of a page    *)
(* stands in `results` as its page_number, idx - 1.                        *)

\* most pages of the document
MaxPages == 3

InitDoc ==
    /\ op = "doc" /\ pc = "start" /\ idx = 0
    /\ n_pages \in 0..MaxPages
    /\ resolved_mode \in BOOLEAN
    /\ results = <<>>
    /\ layout_analyzer = <<>>
    /\ builds = 0
    /\ plog = <<>>
    /\ LayoutIdle /\ AttachIdle /\ MapIdle /\ TextIdle /\ LaterIdle

\* document.py lines 17-26: the document is open, results is empty
DocStart ==
    /\ op = "doc" /\ pc = "start"
    /\ results' = <<>>
    /\ idx' = 1
    /\ pc' = "loop"
    /\ UNCHANGED <<op, n_pages, resolved_mode, layout_analyzer, builds, plog>>
    /\ UNCHANGED <<layoutVars, attachVars, mapVars, textVars, laterVars>>

\* document.py line 28, page.py lines 10-16: a new Page object for the next
\* page, its _layout_analyzer None
PageNew ==
    /\ op = "doc" /\ pc = "loop" /\ idx <= n_pages
    /\ layout_analyzer' = <<>>
    /\ pc' = "page"
    /\ UNCHANGED <<op, idx, n_pages, resolved_mode, results, builds, plog>>
    /\ UNCHANGED <<layoutVars, attachVars, mapVars, textVars, laterVars>>

\* variant: an exception ends the loop
StopAfterException(i) == n_pages + 1

\* document.py lines 30-31: `continue`, the loop goes on with the next page
AfterException(i) == i + 1

PageLogged(how) == Append(plog, [page |-> idx, ended |-> how])

\* analyze_page raises (page.py lines 71-100, and everything it calls); the
\* exception is caught at document.py line 30
PageRaise ==
    /\ op = "doc" /\ pc \in {"page", "analyzer", "detected"}
    /\ plog' = PageLogged("raised")
    /\ idx' = AfterException(idx)
    /\ pc' = "loop"
    /\ UNCHANGED <<op, n_pages, resolved_mode, results, layout_analyzer, builds>>
    /\ UNCHANGED <<layoutVars, attachVars, mapVars, textVars, laterVars>>

\* page.py lines 99-102, document.py line 29: resolved is False
PagePlain ==
    /\ op = "doc" /\ pc = "page" /\ ~resolved_mode
    /\ results' = Append(results, idx - 1)
    /\ plog' = PageLogged("ok")
    /\ idx' = idx + 1
    /\ pc' = "loop"
    /\ UNCHANGED <<op, n_pages, resolved_mode, layout_analyzer, builds>>
    /\ UNCHANGED <<layoutVars, attachVars, mapVars, textVars, laterVars>>

\* page.py lines 80-82, layout_analyzer.py lines 20-24: the Page's analyzer
\* is created if it has none, with _model None
PageGetAnalyzer ==
    /\ op = "doc" /\ pc = "page" /\ resolved_mode
    /\ layout_analyzer' =
         IF layout_analyzer = <<>> THEN <<[model |-> <<>>]>> ELSE layout_analyzer
    /\ pc' = "analyzer"
    /\ UNCHANGED <<op, idx, n_pages, resolved_mode, results, builds, plog>>
    /\ UNCHANGED <<layoutVars, attachVars, mapVars, textVars, laterVars>>

\* layout_analyzer.py lines 26-40, reached from page.py line 83: the model
\* is constructed if this analyzer has none
PageGetModel ==
    /\ op = "doc" /\ pc = "analyzer"
    /\ IF layout_analyzer[1].model = <<>>
       THEN /\ layout_analyzer' = <<[model |-> <<"Detectron2LayoutModel">>]>>
            /\ builds' = builds + 1
       ELSE UNCHANGED <<layout_analyzer, builds>>
    /\ pc' = "detected"
    /\ UNCHANGED <<op, idx, n_pages, resolved_mode, results, plog>>
    /\ UNCHANGED <<layoutVars, attachVars, mapVars, textVars, laterVars>>

\* page.py lines 83-98, 102, document.py line 29: the resolved blocks came
\* back and the page's result is appended
PageResolved ==
    /\ op = "doc" /\ pc = "detected"
    /\ results' = Append(results, idx - 1)
    /\ plog' = PageLogged("ok")
    /\ idx' = idx + 1
    /\ pc' = "loop"
    /\ UNCHANGED <<op, n_pages, resolved_mode, layout_analyzer, builds>>
    /\ UNCHANGED <<layoutVars, attachVars, mapVars, textVars, laterVars>>

\* document.py lines 33-42: the loop is over, results is returned (saving
\* the annotated PDF cannot raise out of its own try block)
DocReturn ==
    /\ op = "doc" /\ pc = "loop" /\ idx > n_pages
    /\ pc' = "returned"
    /\ UNCHANGED <<op, idx, docVars>>
    /\ UNCHANGED <<layoutVars, attachVars, mapVars, textVars, laterVars>>

NextDoc ==
    \/ DocStart
    \/ PageNew
    \/ PageRaise
    \/ PagePlain
    \/ PageGetAnalyzer
    \/ PageGetModel
    \/ PageResolved
    \/ DocReturn

SpecDoc == InitDoc /\ [][NextDoc]_vars

\* the page numbers of the first n pages visited whose analysis went through
RECURSIVE Succeeded(_)
Succeeded(n) ==
    IF n = 0 THEN <<>>
    ELSE Succeeded(n - 1)
           \o (IF plog[n].ended = "ok" THEN <<plog[n].page - 1>> ELSE <<>>)

\* C18: a page whose analysis raises is skipped and the pages after it are
\* still analysed; the pages are visited in order, each once; results holds
\* exactly the results of the pages that went through, in ascending page
\* order; and the call returns once the last page has been visited
C18_PageFaultIsolation ==
    op = "doc" =>
        /\ \A n \in 1..Len(plog) : plog[n].page = n
        /\ results = Succeeded(Len(plog))
        /\ \A i, j \in 1..Len(results) : i < j => results[i] < results[j]
        /\ pc = "loop" => idx = Len(plog) + 1
        /\ pc = "returned" => Len(plog) = n_pages

\* three pages, the second one raised: results holds the first and the third
C18_Witness ==
    /\ op = "doc" /\ pc = "returned"
    /\ n_pages = 3
    /\ plog[2].ended = "raised"
    /\ results = <<0, 2>>

\* C19: during one run of analyze_document in resolved mode the detection
\* model is constructed at most once
C19_ModelBuiltOnce ==
    (op = "doc" /\ resolved_mode) => builds <= 1

---------------------------------------------------------------------------
(* Further properties of _hierarchical_filter, checked under SpecFilter *)

\* C23: the call returns a Layout and never raises, also when a candidate is
\* accepted while selected is non-empty; an empty candidate list gives the
\* empty Layout
C23_ReturnsWithoutRaising ==
    op = "filter" =>
        /\ pc \notin {"raised", "raised_compared"}
        /\ (pc = "returned" /\ candidates = <<>>) => selected = <<>>

\* the labels of the boxes of a sequence
LabelsOf(s) == {s[i].label : i \in 1..Len(s)}

\* C24: a candidate discarded by the suppression check is in `selected` at
\* no later moment of the run, and so is not in the returned layout
C24_RejectedStaysOut ==
    op = "filter" =>
        \A n \in 1..Len(flog) :
            flog[n].verdict = "discarded" =>
                /\ flog[n].box.label \notin LabelsOf(selected)
                /\ \A m \in n..Len(flog) :
                     flog[n].box.label \notin LabelsOf(flog[m].after)

\* the call returned a region after discarding a candidate of the input
C24_Witness ==
    /\ op = "filter" /\ pc = "returned"
    /\ Len(selected) = 1
    /\ \E n \in 1..Len(flog) :
         /\ flog[n].verdict = "discarded"
         /\ \E i \in 1..Len(layout) : layout[i].label = flog[n].box.label
         /\ flog[n].box.label # selected[1].label

\* a stands before b in the processing order
C25_Before(a, b) ==
    \/ ScoreOf(a) > ScoreOf(b)
    \/ ScoreOf(a) = ScoreOf(b) /\ BoxArea(a) > BoxArea(b)
    \/ /\ ScoreOf(a) = ScoreOf(b) /\ BoxArea(a) = BoxArea(b)
       /\ InputPosition(a) < InputPosition(b)

\* s lists its boxes in the processing order
C25_InOrder(s) == \A i, j \in 1..Len(s) : i < j => C25_Before(s[i], s[j])

\* C25: the candidates are processed by non-increasing score, then
\* non-increasing area, then detection order; `selected` lists its regions
\* in that order at every moment, and the regions an iteration keeps stay
\* in the order they had (`candidates` is never reassigned and is looked at
\* before the first iteration; an iteration is looked at in the state that
\* follows it, where its record is the newest of the log)
C25_ProcessingOrder ==
    (op = "filter" /\ pc # "start") =>
        /\ flog = <<>> => C25_InOrder(candidates)
        /\ \A n \in {Len(flog)} \ {0} :
             /\ flog[n].box = candidates[n]
             /\ C25_InOrder(flog[n].before)
             /\ C25_InOrder(flog[n].after)
        /\ C25_InOrder(selected)

\* three candidates of a returning call: the larger area put one before a
\* box detected earlier with the same score, and the detection order
\* decided between two boxes equal in score and area
C25_Witness ==
    /\ op = "filter" /\ pc = "returned"
    /\ Len(candidates) = 3 /\ Len(flog) = 3 /\ Len(selected) = 1
    /\ \E i, j \in 1..3 :
         /\ i < j /\ InputPosition(candidates[i]) > InputPosition(candidates[j])
         /\ ScoreOf(candidates[i]) = ScoreOf(candidates[j])
         /\ BoxArea(candidates[i]) > BoxArea(candidates[j])
    /\ \E i, j \in 1..3 :
         /\ i < j
         /\ ScoreOf(candidates[i]) = ScoreOf(candidates[j])
         /\ BoxArea(candidates[i]) = BoxArea(candidates[j])

---------------------------------------------------------------------------
(* The input of either function, checked under SpecDegenerate *)

\* C26: no step of _hierarchical_filter or of _resolve_overlaps changes the
\* input layout: it keeps the same regions in the same order, with their
\* rectangles, scores and labels; the regions _resolve_overlaps builds are
\* new ones, a clipped rectangle never showing in the input
C26_InputUntouched == [][layout' = layout]_vars

\* _resolve_overlaps returned a clipped region for an input that was not in
\* area order, and the input still holds the region unclipped, in its place
C26_Witness ==
    /\ op = "resolve" /\ pc = "returned"
    /\ ordered # layout
    /\ \E k \in 1..Len(resolved) :
         /\ BlockOf(resolved[k]) # BlockOf(layout[InputPosition(resolved[k])])
         /\ layout[InputPosition(resolved[k])].label = LabelOf(InputPosition(resolved[k]))

---------------------------------------------------------------------------
(* Block structure: TextExtractor._build_block_struct                      *)
(*                                                                         *)
(* The lines of the block are flattened: b_spans holds the text of every   *)
(* span of the block in line order.  Bounding boxes and fonts are copied   *)
(* through by the code and are left out.  `parts` is a sequence of         *)
(* strings; character offsets are 0-based as in the source.                *)

\* most spans in a block
MaxBlockSpans == 4

\* s.get("text") of a span: missing, blank, words with and without
\* punctuation or surrounding whitespace
SpanTexts ==
    {<<>>, <<" ">>, <<"a">>, <<".", "a">>, <<" ", "a", "!">>, <<"laquo">>}

IsInputBlockSpans(s) ==
    \E n \in 0..MaxBlockSpans : s \in [1..n -> SpanTexts]

\* "".join(parts)
RECURSIVE Join(_)
Join(ps) == IF ps = <<>> THEN <<>> ELSE Head(ps) \o Join(Tail(ps))

\* lines 115-117: the locals before the loop (returned: <<>> until the
\* function returns a dict)
EmptyBuild == [parts |-> <<>>, spans_out |-> <<>>, total_len |-> 0, returned |-> <<>>]

\* variant: the inserted space is appended but not counted in total_len
KeepSpanSpaceUncounted(loc, raw) ==
    LET need_sp == loc.parts # <<>> /\ NeedSpaceBetween(loc.parts[Len(loc.parts)], raw)
        spaced == IF need_sp THEN Append(loc.parts, <<" ">>) ELSE loc.parts
        start_char == loc.total_len
        end_char == start_char + Len(raw)
    IN  [loc EXCEPT
            !.parts = Append(spaced, raw),
            !.total_len = end_char,
            !.spans_out = Append(@, [id |-> Len(@), text |-> raw,
                                     start_char |-> start_char, end_char |-> end_char])]

\* lines 126-151: one kept span
KeepSpan(loc, raw) ==
    LET need_sp == loc.parts # <<>> /\ NeedSpaceBetween(loc.parts[Len(loc.parts)], raw)
        spaced == IF need_sp THEN Append(loc.parts, <<" ">>) ELSE loc.parts
        start_char == IF need_sp THEN loc.total_len + 1 ELSE loc.total_len
        end_char == start_char + Len(raw)
    IN  [loc EXCEPT
            !.parts = Append(spaced, raw),
            !.total_len = end_char,
            !.spans_out = Append(@, [id |-> Len(@), text |-> raw,
                                     start_char |-> start_char, end_char |-> end_char])]

InitStruct ==
    /\ op = "struct" /\ pc = "loop" /\ idx = 0
    /\ IsInputBlockSpans(b_spans)
    /\ build = EmptyBuild
    /\ LayoutIdle /\ AttachIdle /\ MapIdle /\ DocIdle /\ TextIdle
    /\ LinkIdle /\ ParIdle /\ CheckIdle

\* lines 121-124: a span whose stripped text is empty is skipped
BuildSkipBlank ==
    /\ op = "struct" /\ pc = "loop" /\ idx < Len(b_spans)
    /\ Strip(b_spans[idx + 1]) = <<>>
    /\ idx' = idx + 1
    /\ UNCHANGED <<op, pc, b_spans, build>>
    /\ UNCHANGED <<layoutVars, attachVars, mapVars, docVars, textVars>>
    /\ UNCHANGED <<linkVars, parVars, checkVars>>

\* lines 121-151: a span with text is kept
BuildKeepSpan ==
    /\ op = "struct" /\ pc = "loop" /\ idx < Len(b_spans)
    /\ Strip(b_spans[idx + 1]) # <<>>
    /\ build' = KeepSpan(build, Strip(b_spans[idx + 1]))
    /\ idx' = idx + 1
    /\ UNCHANGED <<op, pc, b_spans>>
    /\ UNCHANGED <<layoutVars, attachVars, mapVars, docVars, textVars>>
    /\ UNCHANGED <<linkVars, parVars, checkVars>>

\* lines 153-154: no span was kept, the result is None
BuildReturnNone ==
    /\ op = "struct" /\ pc = "loop" /\ idx = Len(b_spans)
    /\ build.spans_out = <<>>
    /\ pc' = "returned"
    /\ UNCHANGED <<op, idx, b_spans, build>>
    /\ UNCHANGED <<layoutVars, attachVars, mapVars, docVars, textVars>>
    /\ UNCHANGED <<linkVars, parVars, checkVars>>

\* lines 156-162: the block's dict
BuildReturn ==
    /\ op = "struct" /\ pc = "loop" /\ idx = Len(b_spans)
    /\ build.spans_out # <<>>
    /\ build' = [build EXCEPT
                    !.returned = <<[text |-> Join(build.parts), spans |-> build.spans_out]>>]
    /\ pc' = "returned"
    /\ UNCHANGED <<op, idx, b_spans>>
    /\ UNCHANGED <<layoutVars, attachVars, mapVars, docVars, textVars>>
    /\ UNCHANGED <<linkVars, parVars, checkVars>>

NextStruct == BuildSkipBlank \/ BuildKeepSpan \/ BuildReturnNone \/ BuildReturn

SpecStruct == InitStruct /\ [][NextStruct]_vars

\* the stripped texts of the block's non-blank spans, in order
RECURSIVE KeptTexts(_)
KeptTexts(ts) ==
    IF ts = <<>> THEN <<>>
    ELSE IF Strip(Head(ts)) = <<>> THEN KeptTexts(Tail(ts))
    ELSE <<Strip(Head(ts))>> \o KeptTexts(Tail(ts))

\* the first n kept texts, with one space between two consecutive ones
\* exactly where need_space_between holds for them
RECURSIVE SpacedConcat(_, _)
SpacedConcat(kept, n) ==
    IF n = 0 THEN <<>>
    ELSE IF n = 1 THEN kept[1]
    ELSE SpacedConcat(kept, n - 1)
            \o (IF NeedSpaceBetween(kept[n - 1], kept[n]) THEN <<" ">> ELSE <<>>)
            \o kept[n]

\* text[start:end] of Python, offsets 0-based, end exclusive
Slice(text, start, end) == SubSeq(text, start + 1, end)

\* C21: the returned block's text is the in-order concatenation of the
\* stripped non-blank span texts, with exactly one space between two
\* consecutive kept spans when need_space_between holds for them; every
\* returned span's [start_char, end_char) slice of the text is that span's
\* text, the ranges increase without overlapping, and the result is None
\* when the block has no non-blank span
C21_BlockText ==
    (op = "struct" /\ pc = "returned") =>
        LET kept == KeptTexts(b_spans)
        IN  IF kept = <<>> THEN build.returned = <<>>
            ELSE /\ build.returned # <<>>
                 /\ LET r == build.returned[1]
                    IN  /\ r.text = SpacedConcat(kept, Len(kept))
                        /\ Len(r.spans) = Len(kept)
                        /\ \A k \in 1..Len(r.spans) :
                            /\ r.spans[k].text = kept[k]
                            /\ Slice(r.text, r.spans[k].start_char, r.spans[k].end_char)
                                  = r.spans[k].text
                            /\ r.spans[k].start_char < r.spans[k].end_char
                            /\ k < Len(r.spans) =>
                                  r.spans[k].end_char <= r.spans[k + 1].start_char

\* a block was returned in which one pair of consecutive kept spans got a
\* space and another pair did not, with a blank span skipped
C21_Witness ==
    /\ op = "struct" /\ pc = "returned" /\ build.returned # <<>>
    /\ Len(build.returned[1].spans) < Len(b_spans)
    /\ \E k \in 1..(Len(build.returned[1].spans) - 1) :
        build.returned[1].spans[k].end_char < build.returned[1].spans[k + 1].start_char
    /\ \E k \in 1..(Len(build.returned[1].spans) - 1) :
        build.returned[1].spans[k].end_char = build.returned[1].spans[k + 1].start_char

---------------------------------------------------------------------------
(* Inline URLs: LinkExtractor._iter_inline_urls                            *)
(*                                                                         *)
(* A text is a sequence of characters in which "http://" stands for the    *)
(* scheme prefix that `https?://` matches and "www." for the literal       *)
(* prefix of the second alternative of _URL_RE; every other character      *)
(* that is not whitespace is matched by `[^\s]`.  The generator's yields   *)
(* are collected, in order, in inline.links.  A link's bbox is the bbox   *)
(* of its span; the field `at` holds that span's block, line and span      *)
(* position in its place.                                                  *)

\* most spans in the whole text_dict
MaxDictSpans == 3

\* s.get("text") of a span: missing, blank, a word, a padded URL, a scheme
\* without a continuation, and a sentence with two URLs
LinkSpanTexts ==
    {<<>>, <<" ">>, <<"a">>, <<" ", "http://", "a">>, <<"http://">>,
     <<"a", " ", "www.", "a", ".", " ", "http://", "a">>}

\* where a span sits: in the line of the span before it, on a new line of
\* the same block, in a new block, or in a new block after an image block
Breaks == {"span", "line", "block", "image"}

ImageBlock == [has_lines |-> FALSE, lines |-> <<>>]

\* the text_dict that holds the first n of the spans
RECURSIVE Grouped(_, _, _)
Grouped(texts, brk, n) ==
    IF n = 0 THEN <<>>
    ELSE LET d == Grouped(texts, brk, n - 1)
             span == [text |-> texts[n]]
             fresh == [has_lines |-> TRUE, lines |-> <<[spans |-> <<span>>]>>]
             last == d[Len(d)]
         IN  IF brk[n] = "image" THEN d \o <<ImageBlock, fresh>>
             ELSE IF brk[n] = "block" \/ d = <<>> THEN Append(d, fresh)
             ELSE IF brk[n] = "line"
                  THEN [d EXCEPT ![Len(d)].lines = Append(@, [spans |-> <<span>>])]
             ELSE [d EXCEPT ![Len(d)].lines[Len(last.lines)].spans = Append(@, span)]

\* text_dict["blocks"]: text blocks with lines of spans, and image blocks
IsInputTextDict(d) ==
    \E n \in 0..MaxDictSpans :
        \E texts \in [1..n -> LinkSpanTexts] :
            \E brk \in [1..n -> Breaks] :
                d = Grouped(texts, brk, n)

\* `https?://` or `www\.`
UrlPrefixes == {"http://", "www."}

\* _URL_RE matches at position i: a prefix followed by at least one
\* non-whitespace character
MatchesAt(t, i) ==
    /\ i < Len(t)
    /\ t[i] \in UrlPrefixes
    /\ ~IsSpace(t[i + 1])

\* `[^\s]+` is greedy: the last position of the run of non-whitespace
\* characters that starts at i
RECURSIVE RunEnd(_, _)
RunEnd(t, i) == IF i < Len(t) /\ ~IsSpace(t[i + 1]) THEN RunEnd(t, i + 1) ELSE i

\* variant: the last match of the text
RECURSIVE UrlSearchLast(_, _)
UrlSearchLast(t, i) ==
    LET starts == {k \in i..Len(t) : MatchesAt(t, k)}
    IN  IF starts = {} THEN <<>>
        ELSE LET k == CHOOSE s \in starts : \A o \in starts : o <= s
             IN  <<SubSeq(t, k, RunEnd(t, k))>>

\* _URL_RE.search(t) scanning from position i: <<>> is None, <<m>> is a
\* match whose group(0) is m
RECURSIVE UrlSearch(_, _)
UrlSearch(t, i) ==
    IF i > Len(t) THEN <<>>
    ELSE IF MatchesAt(t, i) THEN <<SubSeq(t, i, RunEnd(t, i))>>
    ELSE UrlSearch(t, i + 1)

\* " ".join(texts)
RECURSIVE JoinBySpace(_)
JoinBySpace(ts) ==
    IF ts = <<>> THEN <<>>
    ELSE IF Len(ts) = 1 THEN ts[1]
    ELSE ts[1] \o <<" ">> \o JoinBySpace(Tail(ts))

\* the spans' texts, stripped
Stripped(sps) == [k \in 1..Len(sps) |-> Strip(sps[k].text)]

\* the spans for which s.get("text") is true
HasText(s) == s.text # <<>>

\* line 239: full_line_text
FullLineText(line) == JoinBySpace(Stripped(SelectSeq(line.spans, HasText)))

InitInline ==
    /\ op = "inline" /\ pc = "block" /\ idx = 0
    /\ IsInputTextDict(text_dict)
    /\ inline = [block |-> 1, line |-> 0, full_line_text |-> <<>>, links |-> <<>>]
    /\ LayoutIdle /\ AttachIdle /\ MapIdle /\ DocIdle /\ TextIdle
    /\ StructIdle /\ ParIdle /\ CheckIdle

\* lines 235-237: a block without "lines" is passed over
IterSkipBlock ==
    /\ op = "inline" /\ pc = "block" /\ inline.block <= Len(text_dict)
    /\ ~text_dict[inline.block].has_lines
    /\ inline' = [inline EXCEPT !.block = @ + 1]
    /\ UNCHANGED <<op, pc, idx, text_dict>>
    /\ UNCHANGED <<layoutVars, attachVars, mapVars, docVars, textVars>>
    /\ UNCHANGED <<structVars, parVars, checkVars>>

\* lines 235, 238: the loop over the lines of a block begins
IterEnterBlock ==
    /\ op = "inline" /\ pc = "block" /\ inline.block <= Len(text_dict)
    /\ text_dict[inline.block].has_lines
    /\ inline' = [inline EXCEPT !.line = 1]
    /\ pc' = "line"
    /\ UNCHANGED <<op, idx, text_dict>>
    /\ UNCHANGED <<layoutVars, attachVars, mapVars, docVars, textVars>>
    /\ UNCHANGED <<structVars, parVars, checkVars>>

\* lines 238-240: the next line's full text is built
IterEnterLine ==
    /\ op = "inline" /\ pc = "line"
    /\ inline.line <= Len(text_dict[inline.block].lines)
    /\ inline' = [inline EXCEPT
                     !.full_line_text =
                         FullLineText(text_dict[inline.block].lines[inline.line])]
    /\ pc' = "span" /\ idx' = 1
    /\ UNCHANGED <<op, text_dict>>
    /\ UNCHANGED <<layoutVars, attachVars, mapVars, docVars, textVars>>
    /\ UNCHANGED <<structVars, parVars, checkVars>>

\* line 238: the lines of the block are exhausted
IterLeaveBlock ==
    /\ op = "inline" /\ pc = "line"
    /\ inline.line > Len(text_dict[inline.block].lines)
    /\ inline' = [inline EXCEPT !.block = @ + 1, !.line = 0]
    /\ pc' = "block"
    /\ UNCHANGED <<op, idx, text_dict>>
    /\ UNCHANGED <<layoutVars, attachVars, mapVars, docVars, textVars>>
    /\ UNCHANGED <<structVars, parVars, checkVars>>

\* the span the inner loop is at
CurrentSpan == text_dict[inline.block].lines[inline.line].spans[idx]

\* lines 241-246: a span that is blank or holds no URL yields nothing
IterSpanWithoutUrl ==
    /\ op = "inline" /\ pc = "span"
    /\ idx <= Len(text_dict[inline.block].lines[inline.line].spans)
    /\ \/ Strip(CurrentSpan.text) = <<>>
       \/ UrlSearch(Strip(CurrentSpan.text), 1) = <<>>
    /\ idx' = idx + 1
    /\ UNCHANGED <<op, pc, text_dict, inline>>
    /\ UNCHANGED <<layoutVars, attachVars, mapVars, docVars, textVars>>
    /\ UNCHANGED <<structVars, parVars, checkVars>>

\* lines 241-248: a span with a URL yields one link
IterSpanYield ==
    /\ op = "inline" /\ pc = "span"
    /\ idx <= Len(text_dict[inline.block].lines[inline.line].spans)
    /\ Strip(CurrentSpan.text) # <<>>
    /\ UrlSearch(Strip(CurrentSpan.text), 1) # <<>>
    /\ inline' = [inline EXCEPT
                     !.links = Append(@, [text |-> inline.full_line_text,
                                          uri |-> UrlSearch(Strip(CurrentSpan.text), 1)[1],
                                          at |-> <<inline.block, inline.line, idx>>])]
    /\ idx' = idx + 1
    /\ UNCHANGED <<op, pc, text_dict>>
    /\ UNCHANGED <<layoutVars, attachVars, mapVars, docVars, textVars>>
    /\ UNCHANGED <<structVars, parVars, checkVars>>

\* line 240: the spans of the line are exhausted
IterLeaveLine ==
    /\ op = "inline" /\ pc = "span"
    /\ idx > Len(text_dict[inline.block].lines[inline.line].spans)
    /\ inline' = [inline EXCEPT !.line = @ + 1]
    /\ pc' = "line" /\ idx' = 0
    /\ UNCHANGED <<op, text_dict>>
    /\ UNCHANGED <<layoutVars, attachVars, mapVars, docVars, textVars>>
    /\ UNCHANGED <<structVars, parVars, checkVars>>

\* line 235: the blocks are exhausted, the generator ends
IterDone ==
    /\ op = "inline" /\ pc = "block" /\ inline.block > Len(text_dict)
    /\ pc' = "done"
    /\ UNCHANGED <<op, idx, text_dict, inline>>
    /\ UNCHANGED <<layoutVars, attachVars, mapVars, docVars, textVars>>
    /\ UNCHANGED <<structVars, parVars, checkVars>>

NextInline ==
    \/ IterSkipBlock \/ IterEnterBlock \/ IterEnterLine \/ IterLeaveBlock
    \/ IterSpanWithoutUrl \/ IterSpanYield \/ IterLeaveLine \/ IterDone

SpecInline == InitInline /\ [][NextInline]_vars

\* the positions <<block, line, span>> of the spans of d
SpanPositions(d) ==
    {p \in (1..Len(d)) \X (1..MaxDictSpans) \X (1..MaxDictSpans) :
        /\ d[p[1]].has_lines
        /\ p[2] <= Len(d[p[1]].lines)
        /\ p[3] <= Len(d[p[1]].lines[p[2]].spans)}

\* block, line, span order
PositionBefore(p, q) ==
    \/ p[1] < q[1]
    \/ p[1] = q[1] /\ p[2] < q[2]
    \/ p[1] = q[1] /\ p[2] = q[2] /\ p[3] < q[3]

\* the stripped text of the span at position p
StrippedAt(d, p) == Strip(d[p[1]].lines[p[2]].spans[p[3]].text)

\* the text holds a URL
HasUrl(t) == \E i \in 1..Len(t) : MatchesAt(t, i)

\* the leftmost URL of a text that holds one
FirstUrl(t) ==
    LET i == CHOOSE k \in 1..Len(t) :
                 MatchesAt(t, k) /\ \A j \in 1..(k - 1) : ~MatchesAt(t, j)
    IN  SubSeq(t, i, RunEnd(t, i))

\* one link, in block, line, span order, for every span whose stripped
\* text holds a URL, carrying the first URL of that span
C22_OnePerUrlSpan ==
    LET with_url == {p \in SpanPositions(text_dict) : HasUrl(StrippedAt(text_dict, p))}
    IN  /\ Len(inline.links) = Cardinality(with_url)
        /\ \A k \in 1..Len(inline.links) :
            /\ inline.links[k].at \in with_url
            /\ inline.links[k].uri = FirstUrl(StrippedAt(text_dict, inline.links[k].at))
            /\ \A m \in (k + 1)..Len(inline.links) :
                PositionBefore(inline.links[k].at, inline.links[m].at)

---------------------------------------------------------------------------
(* Parallel pages: ParallelProcessor.analyze_document_parallel_pages       *)
(*                                                                         *)
(* Page indices are 0-based as in the source; by_index is a sequence whose *)
(* position i + 1 holds <<>> while page i has no entry and <<res>> once it *)
(* has one.  A visualisation image is written as the index of its page.    *)
(* The pool runs the workers in any order: as_completed hands over the     *)
(* futures one at a time in the order in which they finish.                *)

\* what the future of a page does: the worker returns the page's result
\* with or without a visualisation image, the worker catches an exception
\* and returns an error record (lines 78-84), or future.result() raises
WorkerOutcomes == {"result", "result_with_image", "error_returned", "raised"}

\* the arguments, and the outcome of the future of every page
IsInputFutures(f) ==
    \E n \in 0..MaxPages :
        \E o \in [1..n -> WorkerOutcomes] :
            \E r \in BOOLEAN, e \in BOOLEAN :
                f = [num_pages |-> n, resolved |-> r, include_errors |-> e, outcome |-> o]

\* the dict a page contributes: a result of analyze_page, or an error
\* record with "__error__"; annotated_pdf_path is added at lines 148-150
PageResult(i, failed) == [page_number |-> i, error |-> failed, annotated_pdf_path |-> FALSE]

\* lines 112-131: the loop body for the future of page i
Collected(p, f, i) ==
    LET outcome == f.outcome[i + 1]
        image == f.resolved /\ outcome = "result_with_image"
    IN  [p EXCEPT
            !.by_index[i + 1] = <<PageResult(i, outcome \in {"error_returned", "raised"})>>,
            !.vis_images = IF image THEN Append(@, i) ELSE @,
            !.completed = Append(@, i)]

\* variant: the results are put out in the order in which they arrived
RECURSIVE AssembledAsCompleted(_, _, _)
AssembledAsCompleted(p, include_errors, i) ==
    IF i >= Len(p.completed) THEN <<>>
    ELSE LET res == p.by_index[p.completed[i + 1] + 1]
         IN  (IF res = <<>> \/ (~include_errors /\ res[1].error) THEN <<>> ELSE res)
                \o AssembledAsCompleted(p, include_errors, i + 1)

\* lines 133-140: `out`, from page i on
RECURSIVE Assembled(_, _, _)
Assembled(p, include_errors, i) ==
    IF i >= Len(p.by_index) THEN <<>>
    ELSE LET res == p.by_index[i + 1]
         IN  (IF res = <<>> \/ (~include_errors /\ res[1].error) THEN <<>> ELSE res)
                \o Assembled(p, include_errors, i + 1)

InitPar ==
    /\ op = "par" /\ pc = "pool" /\ idx = 0
    /\ IsInputFutures(futures)
    /\ par = [by_index |-> [i \in 1..futures.num_pages |-> <<>>],
              vis_images |-> <<>>, completed |-> <<>>, out |-> <<>>]
    /\ LayoutIdle /\ AttachIdle /\ MapIdle /\ DocIdle /\ TextIdle
    /\ StructIdle /\ LinkIdle /\ CheckIdle

\* the pages whose future as_completed has not handed over yet
Pending == {i \in 0..(futures.num_pages - 1) : par.by_index[i + 1] = <<>>}

\* lines 110-128: a future finished and future.result() returned
ParFutureResult ==
    /\ op = "par" /\ pc = "pool"
    /\ \E i \in Pending :
        /\ futures.outcome[i + 1] # "raised"
        /\ par' = Collected(par, futures, i)
    /\ UNCHANGED <<op, pc, idx, futures>>
    /\ UNCHANGED <<layoutVars, attachVars, mapVars, docVars, textVars>>
    /\ UNCHANGED <<structVars, linkVars, checkVars>>

\* lines 110-114, 126, 129-131: a future finished and future.result() raised
ParFutureRaised ==
    /\ op = "par" /\ pc = "pool"
    /\ \E i \in Pending :
        /\ futures.outcome[i + 1] = "raised"
        /\ par' = Collected(par, futures, i)
    /\ UNCHANGED <<op, pc, idx, futures>>
    /\ UNCHANGED <<layoutVars, attachVars, mapVars, docVars, textVars>>
    /\ UNCHANGED <<structVars, linkVars, checkVars>>

\* lines 133-154: `out` is assembled; with resolved and at least one image
\* the annotated PDF is saved, which may fail, and its path is put into
\* every returned dict
ParReturn ==
    /\ op = "par" /\ pc = "pool" /\ Pending = {}
    /\ \E saved \in BOOLEAN :
        LET out == Assembled(par, futures.include_errors, 0)
            annotated == futures.resolved /\ par.vis_images # <<>> /\ saved
        IN  par' = [par EXCEPT
                       !.out = [k \in 1..Len(out) |->
                                   [out[k] EXCEPT !.annotated_pdf_path = annotated]]]
    /\ pc' = "returned"
    /\ UNCHANGED <<op, idx, futures>>
    /\ UNCHANGED <<layoutVars, attachVars, mapVars, docVars, textVars>>
    /\ UNCHANGED <<structVars, linkVars, checkVars>>

NextPar == ParFutureResult \/ ParFutureRaised \/ ParReturn

SpecPar == InitPar /\ [][NextPar]_vars

\* the future of page i failed: the worker returned an error record or
\* future.result() raised
PageFailed(i) == futures.outcome[i + 1] \in {"error_returned", "raised"}

\* the futures did not finish in page order
OutOfOrder(seq) == \E k \in 1..(Len(seq) - 1) : seq[k] > seq[k + 1]

\* C27: the returned page results are in strictly ascending page-index
\* order with each index at most once, whatever the order in which the
\* futures completed; a failed page is left out when include_errors is
\* false and is an error record at its index position when it is true; a
\* page that did not fail is always there with its own result
C27_PageOrder ==
    (op = "par" /\ pc = "returned") =>
        /\ \A k \in 1..(Len(par.out) - 1) :
            par.out[k].page_number < par.out[k + 1].page_number
        /\ \A k \in 1..Len(par.out) :
            /\ par.out[k].page_number \in 0..(futures.num_pages - 1)
            /\ par.out[k].error = PageFailed(par.out[k].page_number)
        /\ \A i \in 0..(futures.num_pages - 1) :
            (\E k \in 1..Len(par.out) : par.out[k].page_number = i)
                <=> (~PageFailed(i) \/ futures.include_errors)

\* the futures finished out of page order, one page failed, and a page
\* after it and a page before it are in the result
C27_Witness ==
    /\ op = "par" /\ pc = "returned"
    /\ OutOfOrder(par.completed)
    /\ \E i \in 0..(futures.num_pages - 1) :
        /\ PageFailed(i)
        /\ \E k \in 1..Len(par.out) : par.out[k].page_number < i
        /\ \E k \in 1..Len(par.out) : par.out[k].page_number > i

\* C28: with resolved=True the visualisation images collected for the
\* annotated PDF are in ascending page-index order, whatever the order in
\* which the futures completed
C28_ImagesInPageOrder ==
    (op = "par" /\ pc = "returned" /\ futures.resolved) =>
        \A k \in 1..(Len(par.vis_images) - 1) :
            par.vis_images[k] < par.vis_images[k + 1]

---------------------------------------------------------------------------
(* Page numbers: Checker.check_document_pages                              *)
(*                                                                         *)
(* A page of the document is what the two tests of the loop see of it:     *)
(* whether TitleExtractor(page).is_toc_page() holds and whether            *)
(* has_page_number(page) finds a number.  page.number is 0-based.          *)

DocPages == [toc : BOOLEAN, has_number : BOOLEAN]

IsInputDoc(d) == \E n \in 0..MaxPages : d \in [1..n -> DocPages]

\* lines 23-26: the locals before the loop
PagesStart(d) == [pages_with_numbers |-> 0, count |-> 0, flag |-> FALSE, all_pages |-> Len(d)]

\* lines 28-35: the loop body for the page with page.number = number
PageStep(loc, page, number) ==
    LET flag == loc.flag \/ page.toc
    IN  [pages_with_numbers |-> IF page.has_number THEN loc.pages_with_numbers + 1
                                ELSE loc.pages_with_numbers,
         count |-> IF flag THEN loc.count + 1 ELSE loc.count,
         flag |-> flag,
         all_pages |-> IF page.toc THEN loc.all_pages - number ELSE loc.all_pages]

\* lines 27-35: the loop from page i on
RECURSIVE PagesLoop(_, _, _)
PagesLoop(loc, d, i) ==
    IF i >= Len(d) THEN loc ELSE PagesLoop(PageStep(loc, d[i + 1], i), d, i + 1)

\* line 38: the value returned
PagesResult(loc) == loc.count = loc.all_pages

\* check_document_pages(pdf_path)
CheckDocumentPages(d) == PagesResult(PagesLoop(PagesStart(d), d, 0))

InitCheck ==
    /\ op = "check" /\ pc = "loop" /\ idx = 0
    /\ IsInputDoc(doc)
    /\ doc_json = <<>>
    /\ check = [locals |-> PagesStart(doc), returned |-> <<>>]
    /\ LayoutIdle /\ AttachIdle /\ MapIdle /\ DocIdle /\ TextIdle
    /\ StructIdle /\ LinkIdle /\ ParIdle

\* lines 27-35: one page of the loop
CheckPage ==
    /\ op = "check" /\ pc = "loop" /\ idx < Len(doc)
    /\ check' = [check EXCEPT !.locals = PageStep(@, doc[idx + 1], idx)]
    /\ idx' = idx + 1
    /\ UNCHANGED <<op, pc, doc, doc_json>>
    /\ UNCHANGED <<layoutVars, attachVars, mapVars, docVars, textVars>>
    /\ UNCHANGED <<structVars, linkVars, parVars>>

\* lines 37-38
CheckPagesReturn ==
    /\ op = "check" /\ pc = "loop" /\ idx = Len(doc)
    /\ check' = [check EXCEPT !.returned = <<PagesResult(check.locals)>>]
    /\ pc' = "returned"
    /\ UNCHANGED <<op, idx, doc, doc_json>>
    /\ UNCHANGED <<layoutVars, attachVars, mapVars, docVars, textVars>>
    /\ UNCHANGED <<structVars, linkVars, parVars>>

NextCheck == CheckPage \/ CheckPagesReturn

SpecCheck == InitCheck /\ [][NextCheck]_vars

\* page k (1-based position) is the table-of-contents page or comes after it
FromTocOn(d, k) == \E t \in 1..k : d[t].toc

\* C30: check_document_pages returns True only if every page from the
\* table-of-contents page onward has a page number; it returns False when
\* some such page lacks one
C30_NumbersFromTocOn ==
    (op = "check" /\ pc = "returned" /\ check.returned[1]) =>
        \A k \in 1..Len(doc) : FromTocOn(doc, k) => doc[k].has_number

---------------------------------------------------------------------------
(* Report: Reporter.get_report over Checker.check_document                 *)
(*                                                                         *)
(* A page of doc_json is what the checks see of it: its page_number, the   *)
(* value check_appendix gives for it (1 correct appendix, -1 incorrect     *)
(* appendix, 0 none) and whether its captions and images are equal in      *)
(* number.  A report line is written as the name of its check with the     *)
(* page numbers it lists; the returned text is the sequence of its lines.  *)

\* most pages in doc_json
MaxJsonPages == 2

JsonPageShapes == [appendix : {0 - 1, 0, 1}, captions_ok : BOOLEAN]

IsInputDocJson(j) ==
    \E n \in 0..MaxJsonPages :
        \E f \in [1..n -> JsonPageShapes] :
            j = [k \in 1..n |-> [page_number |-> k - 1,
                                 appendix |-> f[k].appendix,
                                 captions_ok |-> f[k].captions_ok]]

\* checker.py lines 95-115: has_any_appendix is set only where
\* check_appendix gave 0 and the pattern is found, which excludes each
\* other, so the result is False exactly when a page gives -1
CheckDocumentAppendices(j) == \A k \in 1..Len(j) : j[k].appendix # 0 - 1

\* checker.py lines 47-64
CheckCaptionsDoc(j) == \A k \in 1..Len(j) : j[k].captions_ok

\* checker.py lines 183-217: problematic_links stays empty, every page is ok
CheckLinksDoc(j) == TRUE

\* checker.py lines 219-236: links_ok of the dict is the literal True
CheckDocument(d, j) ==
    [all_ok |-> /\ CheckDocumentPages(d)
                /\ CheckDocumentAppendices(j)
                /\ CheckCaptionsDoc(j)
                /\ CheckLinksDoc(j),
     page_numbers_ok |-> CheckDocumentPages(d),
     appendices_ok |-> CheckDocumentAppendices(j),
     captions_ok |-> CheckCaptionsDoc(j),
     links_ok |-> TRUE]

BadAppendix(page) == page.appendix = 0 - 1

MissingCaptions(page) == ~page.captions_ok

\* the page numbers of a sequence of pages
PageNumbers(j) == [k \in 1..Len(j) |-> j[k].page_number]

\* reporter.py lines 28-53: the lines for appendices, captions and links
RestLines(data, j) ==
    (IF ~data.appendices_ok
     THEN <<[check |-> "appendices", pages |-> PageNumbers(SelectSeq(j, BadAppendix))]>> ELSE <<>>)
    \o (IF ~data.captions_ok
        THEN <<[check |-> "captions", pages |-> PageNumbers(SelectSeq(j, MissingCaptions))]>> ELSE <<>>)
    \o (IF ~data.links_ok THEN <<[check |-> "links", pages |-> <<>>]>> ELSE <<>>)

\* reporter.py line 18
AllPassed == <<[check |-> "all_passed", pages |-> <<>>]>>

InitReport ==
    /\ op = "report" /\ pc = "start" /\ idx = 0
    /\ IsInputDoc(doc)
    /\ IsInputDocJson(doc_json)
    /\ check = [report_data |-> <<>>, report_lines |-> <<>>, returned |-> <<>>]
    /\ LayoutIdle /\ AttachIdle /\ MapIdle /\ DocIdle /\ TextIdle
    /\ StructIdle /\ LinkIdle /\ ParIdle

\* reporter.py lines 14-15
ReportCheckDocument ==
    /\ op = "report" /\ pc = "start"
    /\ check' = [check EXCEPT !.report_data = <<CheckDocument(doc, doc_json)>>]
    /\ pc' = "checked"
    /\ UNCHANGED <<op, idx, doc, doc_json>>
    /\ UNCHANGED <<layoutVars, attachVars, mapVars, docVars, textVars>>
    /\ UNCHANGED <<structVars, linkVars, parVars>>

\* reporter.py lines 17-18
ReportAllOk ==
    /\ op = "report" /\ pc = "checked"
    /\ check.report_data[1].all_ok
    /\ check' = [check EXCEPT !.returned = <<AllPassed>>]
    /\ pc' = "returned"
    /\ UNCHANGED <<op, idx, doc, doc_json>>
    /\ UNCHANGED <<layoutVars, attachVars, mapVars, docVars, textVars>>
    /\ UNCHANGED <<structVars, linkVars, parVars>>

\* reporter.py lines 20-23: Checker has no attribute
\* has_page_number_from_json, so the first page of the loop raises
\* AttributeError
ReportPageNumbersRaise ==
    /\ op = "report" /\ pc = "checked"
    /\ ~check.report_data[1].all_ok
    /\ ~check.report_data[1].page_numbers_ok
    /\ doc_json # <<>>
    /\ pc' = "raised"
    /\ UNCHANGED <<op, idx, doc, doc_json, check>>
    /\ UNCHANGED <<layoutVars, attachVars, mapVars, docVars, textVars>>
    /\ UNCHANGED <<structVars, linkVars, parVars>>

\* reporter.py lines 20-26: with no page in doc_json the loop body is never
\* entered and the line lists no page
ReportPageNumbersLine ==
    /\ op = "report" /\ pc = "checked"
    /\ ~check.report_data[1].all_ok
    /\ ~check.report_data[1].page_numbers_ok
    /\ doc_json = <<>>
    /\ check' = [check EXCEPT
                    !.report_lines = Append(@, [check |-> "page_numbers", pages |-> <<>>])]
    /\ pc' = "numbers_done"
    /\ UNCHANGED <<op, idx, doc, doc_json>>
    /\ UNCHANGED <<layoutVars, attachVars, mapVars, docVars, textVars>>
    /\ UNCHANGED <<structVars, linkVars, parVars>>

\* reporter.py line 20: the page numbers passed
ReportPageNumbersOk ==
    /\ op = "report" /\ pc = "checked"
    /\ ~check.report_data[1].all_ok
    /\ check.report_data[1].page_numbers_ok
    /\ pc' = "numbers_done"
    /\ UNCHANGED <<op, idx, doc, doc_json, check>>
    /\ UNCHANGED <<layoutVars, attachVars, mapVars, docVars, textVars>>
    /\ UNCHANGED <<structVars, linkVars, parVars>>

\* reporter.py lines 28-55
ReportReturn ==
    /\ op = "report" /\ pc = "numbers_done"
    /\ LET lines == check.report_lines \o RestLines(check.report_data[1], doc_json)
       IN  check' = [check EXCEPT !.report_lines = lines, !.returned = <<lines>>]
    /\ pc' = "returned"
    /\ UNCHANGED <<op, idx, doc, doc_json>>
    /\ UNCHANGED <<layoutVars, attachVars, mapVars, docVars, textVars>>
    /\ UNCHANGED <<structVars, linkVars, parVars>>

NextReport ==
    \/ ReportCheckDocument \/ ReportAllOk \/ ReportPageNumbersRaise
    \/ ReportPageNumbersLine \/ ReportPageNumbersOk \/ ReportReturn

SpecReport == InitReport /\ [][NextReport]_vars

\* C29: get_report returns a text report for every document and every
\* combination of check outcomes without raising: the all-passed sentence
\* when all_ok is true, otherwise the lines of the failed checks
C29_ReportWithoutRaising ==
    op = "report" =>
        /\ pc # "raised"
        /\ pc = "returned" =>
            IF check.report_data[1].all_ok THEN check.returned[1] = AllPassed
            ELSE /\ check.returned[1] # <<>>
                 /\ \A k \in 1..Len(check.returned[1]) :
                     check.returned[1][k].check \in
                         {"page_numbers", "appendices", "captions", "links"}

====
